---- MODULE Spec2Model ----
(***************************************************************************)
(* Model of langgraph-audio-agents: the conversation context manager, the  *)
(* validation-history window kept by validator_node, the two-stage         *)
(* researcher -> validator pipeline with its checkpointed state, and the   *)
(* thread-identifier normalisation, the web front end's shared event loop  *)
(* and turns of several runs in flight together on one checkpoint file.    *)
(*                                                                         *)
(* Text is a sequence of atoms.  In the context-manager and pipeline parts *)
(* an atom is a fragment of text that the tokenizer counts as a unit; in   *)
(* the thread-identifier part an atom is a single character.               *)
(***************************************************************************)
EXTENDS Integers, Sequences, FiniteSets, TLC

\* ------------------------------------------------------------------------
\* Bounds of the model
\* ------------------------------------------------------------------------
MaxLen == 4
MaxK == 2
TokLow == 7
MaxManage == 2
MaxTurns == 7
MaxFailures == 1
MaxUserLen == 3
MaxTopicLen == 3
LongTailLen == 2
MaxRawLen == 4
MaxAppend == 2
MaxStored == 1
MaxCallers == 2
MaxCalls == 3
LongTokens == 10000

\* ------------------------------------------------------------------------
\* State: the context-manager part (c...), the pipeline part and the
\* thread-identifier part (n...)
\* ------------------------------------------------------------------------
VARIABLES cMsgs, cK, cMaxTok, cOp, cIn, cFired, cCompacted, cPrevCompacted,
          cCalls, cLlm, cTrig, cRuns, cSum, cKeep

VARIABLES cK2, cMaxTok2, cTrig2, cExtra, cCountIn, cCountOut, cTokIn, cTokOut

ctxMore == <<cK2, cMaxTok2, cTrig2, cExtra, cCountIn, cCountOut, cTokIn, cTokOut>>

ctxVars == <<cMsgs, cK, cMaxTok, cOp, cIn, cFired, cCompacted, cPrevCompacted,
             cCalls, cLlm, cTrig, cRuns, cSum, cKeep, ctxMore>>

VARIABLES store, pc, channels, update, turnStart, stageLog, critique, trigEvals,
          trigInput, managed, sumCalls, llmConfigured, turns, failedAt,
          turnQuery, researcherMsg, existing, failures, validatorMsg,
          thisOutcome, prevOutcome, stageIn, loadRaised

pipeVars == <<store, pc, channels, update, turnStart, stageLog, critique, trigEvals,
              trigInput, managed, sumCalls, llmConfigured, turns, failedAt,
              turnQuery, researcherMsg, existing, failures, validatorMsg,
              thisOutcome, prevOutcome, stageIn, loadRaised>>

VARIABLES nUser, nTopic, nUser2, nTopic2, nId, nId2, nOp, nRaw, nParsed, nRe

VARIABLES nIds, nFound, nTopics, nSelectedUser, nSelectedTopic, nThreadId

tidMore == <<nIds, nFound, nTopics, nSelectedUser, nSelectedTopic, nThreadId>>

tidVars == <<nUser, nTopic, nUser2, nTopic2, nId, nId2, nOp, nRaw, nParsed, nRe,
             tidMore>>

VARIABLES event_loop, lCreated, lQueued, lWorker, lPc, lHanded, lScheduled,
          lDone, lCalls, lKind, lRounds

loopVars == <<event_loop, lCreated, lQueued, lWorker, lPc, lHanded, lScheduled,
              lDone, lCalls, lKind, lRounds>>

VARIABLES wDb, wDb0, wGraphs, wIn, wPc, wTid, wExisting, wChannels, wUpdate,
          wOverlapped, wLoadRaised

runVars == <<wDb, wDb0, wGraphs, wIn, wPc, wTid, wExisting, wChannels, wUpdate,
             wOverlapped, wLoadRaised>>

vars == <<ctxVars, pipeVars, tidVars, loopVars, runVars>>

\* ------------------------------------------------------------------------
\* Messages (domain/value_objects/message.py)
\* ------------------------------------------------------------------------
Roles == {"user", "agent", "system"}

Message(role, content) == [role |-> role, content |-> content]

\* messages[start_index:] for a 0-based start_index
SliceFrom(s, start) == SubSeq(s, start + 1, Len(s))

\* messages[:start_index] for a 0-based start_index
SliceTo(s, start) == SubSeq(s, 1, start)

\* ------------------------------------------------------------------------
\* utils/conversation_manager.py
\* ------------------------------------------------------------------------
\* Tokens the tokenizer yields for one atom of text; the atom "LONG" stands
\* for a passage of LongTokens tokens.
AtomTokens(a) == IF a = "LONG" THEN LongTokens ELSE 1

RECURSIVE count_tokens(_)
count_tokens(text) ==
    IF text = <<>> THEN 0
    ELSE AtomTokens(Head(text)) + count_tokens(Tail(text))

\* f"{msg.role}: {msg.content}"
FormatMessage(msg) == <<msg.role, ": ">> \o msg.content

estimate_message_tokens_last(messages) ==
    IF messages = <<>> THEN 0
    ELSE count_tokens(FormatMessage(messages[Len(messages)]))

RECURSIVE estimate_message_tokens(_)
estimate_message_tokens(messages) ==
    IF messages = <<>> THEN 0
    ELSE count_tokens(FormatMessage(Head(messages)))
           + estimate_message_tokens(Tail(messages))

RECURSIVE count_exchanges_non_agent(_)
count_exchanges_non_agent(messages) ==
    IF messages = <<>> THEN 0
    ELSE (IF Head(messages).role # "agent" THEN 1 ELSE 0)
           + count_exchanges_non_agent(Tail(messages))

RECURSIVE count_exchanges(_)
count_exchanges(messages) ==
    IF messages = <<>> THEN 0
    ELSE (IF Head(messages).role = "user" THEN 1 ELSE 0)
           + count_exchanges(Tail(messages))

should_summarize_strict(messages, max_exchanges, max_tokens) ==
    IF count_exchanges(messages) >= max_exchanges THEN TRUE
    ELSE estimate_message_tokens(messages) >= max_tokens

should_summarize_tokens_only(messages, max_exchanges, max_tokens) ==
    estimate_message_tokens(messages) > max_tokens

should_summarize_exact(messages, max_exchanges, max_tokens) ==
    IF count_exchanges(messages) = max_exchanges + 1 THEN TRUE
    ELSE estimate_message_tokens(messages) > max_tokens

should_summarize(messages, max_exchanges, max_tokens) ==
    IF count_exchanges(messages) > max_exchanges THEN TRUE
    ELSE estimate_message_tokens(messages) > max_tokens

\* [i for i, msg in enumerate(messages) if msg.role == "user"], 0-based
RECURSIVE UserIndicesFrom(_, _)
UserIndicesFrom(messages, i) ==
    IF messages = <<>> THEN <<>>
    ELSE (IF Head(messages).role = "user" THEN <<i>> ELSE <<>>)
           \o UserIndicesFrom(Tail(messages), i + 1)

user_indices(messages) == UserIndicesFrom(messages, 0)

\* user_indices[-num_exchanges] with Python's indexing: -0 is index 0
NegIndex(idx, n) == IF n = 0 THEN idx[1] ELSE idx[Len(idx) - n + 1]

get_recent_exchanges_off(messages, num_exchanges) ==
    LET idx == user_indices(messages) IN
    IF Len(idx) <= num_exchanges THEN messages
    ELSE SliceFrom(messages, NegIndex(idx, num_exchanges) + 1)

get_recent_exchanges(messages, num_exchanges) ==
    LET idx == user_indices(messages) IN
    IF Len(idx) <= num_exchanges THEN messages
    ELSE SliceFrom(messages, NegIndex(idx, num_exchanges))

get_messages_to_summarize(messages, num_exchanges) ==
    LET idx == user_indices(messages) IN
    IF Len(idx) <= num_exchanges THEN <<>>
    ELSE SliceTo(messages, NegIndex(idx, num_exchanges))


\* ------------------------------------------------------------------------
\* application/services/conversation_summarizer.py
\* ------------------------------------------------------------------------
Whitespace == {" ", "\t", "\n"}

RECURSIVE LStrip(_)
LStrip(text) ==
    IF text = <<>> THEN <<>>
    ELSE IF Head(text) \in Whitespace THEN LStrip(Tail(text))
    ELSE text

RECURSIVE RStrip(_)
RStrip(text) ==
    IF text = <<>> THEN <<>>
    ELSE IF text[Len(text)] \in Whitespace THEN RStrip(SubSeq(text, 1, Len(text) - 1))
    ELSE text

\* str.strip()
Strip(text) == RStrip(LStrip(text))

\* summarize_conversation(messages, llm_client) when create_response
\* returns llm_output
summarize_conversation(messages, llm_output) ==
    IF messages = <<>> THEN <<>> ELSE Strip(llm_output)

\* ------------------------------------------------------------------------
\* utils/context_manager.py
\* ------------------------------------------------------------------------
SummaryPrefix == <<"Previous conversation summary: ">>

\* TRUE when manage_conversation_context reaches the summarize_conversation
\* call
ManageSummarizes(messages, max_exchanges, max_tokens) ==
    /\ should_summarize(messages, max_exchanges, max_tokens)
    /\ get_messages_to_summarize(messages, max_exchanges) # <<>>

manage_conversation_context_keep_old(messages, llm_output, max_exchanges, max_tokens) ==
    IF ~should_summarize(messages, max_exchanges, max_tokens) THEN messages
    ELSE LET messages_to_summarize == get_messages_to_summarize(messages, max_exchanges)
             summary_text == summarize_conversation(messages_to_summarize, llm_output)
         IN  <<Message("system", SummaryPrefix \o summary_text)>> \o messages

\* the system messages of a sequence, in order
RECURSIVE SystemMessages(_)
SystemMessages(messages) ==
    IF messages = <<>> THEN <<>>
    ELSE (IF Head(messages).role = "system" THEN <<Head(messages)>> ELSE <<>>)
           \o SystemMessages(Tail(messages))

manage_conversation_context_keep_summaries(messages, llm_output, max_exchanges, max_tokens) ==
    IF ~should_summarize(messages, max_exchanges, max_tokens) THEN messages
    ELSE LET messages_to_summarize == get_messages_to_summarize(messages, max_exchanges)
             recent_messages == get_recent_exchanges(messages, max_exchanges)
         IN  IF messages_to_summarize = <<>> THEN messages
             ELSE <<Message("system", SummaryPrefix
                              \o summarize_conversation(messages_to_summarize, llm_output))>>
                    \o SystemMessages(messages_to_summarize) \o recent_messages

manage_conversation_context_no_guard(messages, llm_output, max_exchanges, max_tokens) ==
    IF ~should_summarize(messages, max_exchanges, max_tokens) THEN messages
    ELSE LET messages_to_summarize == get_messages_to_summarize(messages, max_exchanges)
             recent_messages == get_recent_exchanges(messages, max_exchanges)
             summary_text == Strip(llm_output)
         IN  <<Message("system", SummaryPrefix \o summary_text)>> \o recent_messages

\* the value manage_conversation_context returns when the summarizer call,
\* if made, returns llm_output
manage_conversation_context(messages, llm_output, max_exchanges, max_tokens) ==
    IF ~should_summarize(messages, max_exchanges, max_tokens) THEN messages
    ELSE LET messages_to_summarize == get_messages_to_summarize(messages, max_exchanges)
             recent_messages == get_recent_exchanges(messages, max_exchanges)
         IN  IF messages_to_summarize = <<>> THEN messages
             ELSE LET summary_text == summarize_conversation(messages_to_summarize, llm_output)
                      summary_message == Message("system", SummaryPrefix \o summary_text)
                  IN  <<summary_message>> \o recent_messages

\* ------------------------------------------------------------------------
\* Context-manager specification: the functions above applied to every
\* bounded message sequence
\* ------------------------------------------------------------------------
CtxContents == {<<"a">>, <<"b", "c">>}

CtxMessages == {Message(r, c) : r \in Roles, c \in CtxContents}

RECURSIVE SeqsUpTo(_, _)
SeqsUpTo(S, n) ==
    IF n = 0 THEN {<<>>}
    ELSE LET shorter == SeqsUpTo(S, n - 1)
         IN  shorter \cup {Append(s, x) : s \in {t \in shorter : Len(t) = n - 1}, x \in S}

MaxTokensChoices == {TokLow, 10000}

\* what llm_client.create_response may return for a summary request
LlmSummaries == {<<"s">>, <<" ", "s", "t", "\n">>, <<" ">>}

CtxInit ==
    /\ cMsgs \in SeqsUpTo(CtxMessages, MaxLen)
    /\ cK \in 0..MaxK
    /\ cMaxTok \in MaxTokensChoices
    /\ cOp = "init"
    /\ cIn = <<>>
    /\ cFired = FALSE
    /\ cCompacted = FALSE
    /\ cPrevCompacted = FALSE
    /\ cCalls = <<>>
    /\ cLlm = <<>>
    /\ cTrig = FALSE
    /\ cRuns = 0
    /\ cSum = <<>>
    /\ cKeep = <<>>
    /\ cK2 = 0
    /\ cMaxTok2 = 0
    /\ cTrig2 = FALSE
    /\ cExtra = <<>>
    /\ cCountIn = 0
    /\ cCountOut = 0
    /\ cTokIn = 0
    /\ cTokOut = 0

\* should_summarize(messages, max_exchanges, max_tokens)
CtxTrigger ==
    /\ cOp = "init"
    /\ cTrig' = should_summarize(cMsgs, cK, cMaxTok)
    /\ cIn' = cMsgs
    /\ cOp' = "trigger"
    /\ UNCHANGED <<cMsgs, cK, cMaxTok, cFired, cCompacted, cPrevCompacted,
                   cCalls, cLlm, cRuns, cSum, cKeep>>
    /\ UNCHANGED ctxMore
    /\ UNCHANGED <<pipeVars, tidVars, loopVars, runVars>>

\* manage_conversation_context(messages, llm_client, max_exchanges, max_tokens)
\* returning normally
CtxManage ==
    /\ cRuns < MaxManage
    /\ cOp \in {"init", "manage"}
    /\ \E out \in LlmSummaries :
         LET calls == ManageSummarizes(cMsgs, cK, cMaxTok) IN
         /\ cLlm' = IF calls THEN out ELSE <<>>
         /\ cMsgs' = manage_conversation_context(cMsgs, cLlm', cK, cMaxTok)
         /\ cCalls' = IF calls
                      THEN Append(cCalls, get_messages_to_summarize(cMsgs, cK))
                      ELSE cCalls
         /\ cCompacted' = calls
    /\ cIn' = cMsgs
    /\ cFired' = should_summarize(cMsgs, cK, cMaxTok)
    /\ cPrevCompacted' = (cOp = "manage" /\ cCompacted)
    /\ cOp' = "manage"
    /\ cRuns' = cRuns + 1
    /\ UNCHANGED <<cK, cMaxTok, cTrig, cSum, cKeep>>
    /\ UNCHANGED ctxMore
    /\ UNCHANGED <<pipeVars, tidVars, loopVars, runVars>>

\* manage_conversation_context when the summarizer's LLM call raises: the
\* exception leaves the function and nothing is returned
CtxManageFail ==
    /\ cRuns < MaxManage
    /\ cOp \in {"init", "manage"}
    /\ ManageSummarizes(cMsgs, cK, cMaxTok)
    /\ cCalls' = Append(cCalls, get_messages_to_summarize(cMsgs, cK))
    /\ cIn' = cMsgs
    /\ cFired' = TRUE
    /\ cOp' = "manage_failed"
    /\ cRuns' = cRuns + 1
    /\ UNCHANGED <<cMsgs, cK, cMaxTok, cCompacted, cPrevCompacted, cLlm, cTrig,
                   cSum, cKeep>>
    /\ UNCHANGED ctxMore
    /\ UNCHANGED <<pipeVars, tidVars, loopVars, runVars>>

\* thresholds not above the given ones
LowerTokens(t) == {u \in MaxTokensChoices \cup {0} : u <= t}

\* should_summarize at (max_exchanges, max_tokens) and at thresholds that
\* are not above them
CtxTriggerLower ==
    /\ cOp = "init"
    /\ \E e \in 0..cK, u \in LowerTokens(cMaxTok) :
         /\ cK2' = e
         /\ cMaxTok2' = u
         /\ cTrig2' = should_summarize(cMsgs, e, u)
    /\ cTrig' = should_summarize(cMsgs, cK, cMaxTok)
    /\ cIn' = cMsgs
    /\ cOp' = "trigger_lower"
    /\ UNCHANGED <<cMsgs, cK, cMaxTok, cFired, cCompacted, cPrevCompacted,
                   cCalls, cLlm, cRuns, cSum, cKeep>>
    /\ UNCHANGED <<cExtra, cCountIn, cCountOut, cTokIn, cTokOut>>
    /\ UNCHANGED <<pipeVars, tidVars, loopVars, runVars>>

\* the messages appended between two counts
AppendedMessages == {Message(r, <<"a">>) : r \in Roles}

\* count_exchanges and estimate_message_tokens before and after messages
\* are appended to the sequence
CtxAppendAndCount ==
    /\ cOp = "init"
    /\ \E extra \in SeqsUpTo(AppendedMessages, MaxAppend) :
         /\ cExtra' = extra
         /\ cMsgs' = cMsgs \o extra
    /\ cCountIn' = count_exchanges(cMsgs)
    /\ cTokIn' = estimate_message_tokens(cMsgs)
    /\ cCountOut' = count_exchanges(cMsgs')
    /\ cTokOut' = estimate_message_tokens(cMsgs')
    /\ cIn' = cMsgs
    /\ cOp' = "counted"
    /\ UNCHANGED <<cK, cMaxTok, cFired, cCompacted, cPrevCompacted,
                   cCalls, cLlm, cTrig, cRuns, cSum, cKeep>>
    /\ UNCHANGED <<cK2, cMaxTok2, cTrig2>>
    /\ UNCHANGED <<pipeVars, tidVars, loopVars, runVars>>

\* get_messages_to_summarize(messages, k) and get_recent_exchanges(messages, k)
CtxPartition ==
    /\ cOp = "init"
    /\ cSum' = get_messages_to_summarize(cMsgs, cK)
    /\ cKeep' = get_recent_exchanges(cMsgs, cK)
    /\ cIn' = cMsgs
    /\ cOp' = "partition"
    /\ UNCHANGED <<cMsgs, cK, cMaxTok, cFired, cCompacted, cPrevCompacted,
                   cCalls, cLlm, cTrig, cRuns>>
    /\ UNCHANGED ctxMore
    /\ UNCHANGED <<pipeVars, tidVars, loopVars, runVars>>


\* ------------------------------------------------------------------------
\* Metadata: dict[str, Any] (domain/entities/conversation_state.py).  A
\* dict is its key set and a value for every key the program uses; a key
\* outside the key set holds the value dict.get would default to.
\* ------------------------------------------------------------------------
MetaKeys == {"agent", "query", "raw_results", "confidence_score", "assessment",
             "is_validated", "validation_history"}

MetaDefault ==
    [agent |-> "", query |-> <<>>, raw_results |-> <<>>, confidence_score |-> 0,
     assessment |-> <<>>, is_validated |-> FALSE, validation_history |-> <<>>]

EmptyDict == [keys |-> {}, val |-> MetaDefault]

\* a dict literal with the given keys
Dict(keys, vals) ==
    [keys |-> keys,
     val |-> [k \in MetaKeys |-> IF k \in keys THEN vals[k] ELSE MetaDefault[k]]]

\* key in d
Has(d, k) == k \in d.keys

\* {**a, **b}
DictMerge(a, b) ==
    [keys |-> a.keys \cup b.keys,
     val |-> [k \in MetaKeys |-> IF k \in b.keys THEN b.val[k] ELSE a.val[k]]]

\* d[k] = v
DictSet(d, k, v) ==
    [keys |-> d.keys \cup {k}, val |-> [d.val EXCEPT ![k] = v]]

\* s[-2:]
LastTwo(s) == IF Len(s) <= 2 THEN s ELSE SubSeq(s, Len(s) - 1, Len(s))

\* ------------------------------------------------------------------------
\* agents/validator.py
\* ------------------------------------------------------------------------
confidence_threshold == 70

\* last message of the given role, "" when there is none
RECURSIVE LastContentOfRole(_, _)
LastContentOfRole(messages, role) ==
    IF messages = <<>> THEN <<>>
    ELSE IF messages[Len(messages)].role = role THEN messages[Len(messages)].content
    ELSE LastContentOfRole(SubSeq(messages, 1, Len(messages) - 1), role)

RECURSIVE FirstContentOfRole(_, _)
FirstContentOfRole(messages, role) ==
    IF messages = <<>> THEN <<>>
    ELSE IF Head(messages).role = role THEN Head(messages).content
    ELSE FirstContentOfRole(Tail(messages), role)

_extract_user_query(messages) ==
    LastContentOfRole(messages, "user")

_extract_research_result_first(messages) ==
    FirstContentOfRole(messages, "agent")

_extract_research_result(messages) ==
    LastContentOfRole(messages, "agent")

\* ValidationResult accepts a score only in [0, 100]
\* (domain/value_objects/validation_result.py)
ValidScore_no_upper(score) ==
    score >= 0

ValidScore(score) ==
    score >= 0 /\ score <= 100

\* _validate_research without an LLM client
DefaultValidation(query) ==
    [confidence_score |-> 75,
     assessment |-> <<"Validation for '">> \o query
                      \o <<"': The research appears comprehensive.">>]

Digits == <<"0", "1", "2", "3", "4", "5", "6", "7", "8", "9">>

\* f"{n}" for a non-negative integer
RECURSIVE IntText(_)
IntText(n) ==
    IF n < 10 THEN <<Digits[n + 1]>>
    ELSE IntText(n \div 10) \o <<Digits[(n % 10) + 1]>>

\* _generate_audio_summary without an LLM client
DefaultValidatorSummary(query, confidence_score) ==
    <<"I've reviewed the research about ">> \o query
      \o <<". Confidence: ">> \o IntText(confidence_score) \o <<"%">>

ValidatorResponse_strict(messages, validation_result, audio_summary_text) ==
    [content |-> validation_result.assessment,
     audio_summary |-> audio_summary_text,
     metadata |->
        Dict({"agent", "query", "confidence_score", "assessment", "is_validated"},
             [agent |-> "validator",
              query |-> _extract_user_query(messages),
              confidence_score |-> validation_result.confidence_score,
              assessment |-> validation_result.assessment,
              is_validated |->
                  validation_result.confidence_score > confidence_threshold])]

\* the AgentResponse of ValidatorAgent.process for a validation result and
\* an audio summary text
ValidatorResponse(messages, validation_result, audio_summary_text) ==
    [content |-> validation_result.assessment,
     audio_summary |-> audio_summary_text,
     metadata |->
        Dict({"agent", "query", "confidence_score", "assessment", "is_validated"},
             [agent |-> "validator",
              query |-> _extract_user_query(messages),
              confidence_score |-> validation_result.confidence_score,
              assessment |-> validation_result.assessment,
              is_validated |->
                  validation_result.confidence_score >= confidence_threshold])]

\* ------------------------------------------------------------------------
\* application/prompts/validator_prompts.py
\* ------------------------------------------------------------------------
\* "\n".join(parts) for a list of texts
RECURSIVE JoinLines(_)
JoinLines(parts) ==
    IF parts = <<>> THEN <<>>
    ELSE IF Len(parts) = 1 THEN Head(parts)
    ELSE Head(parts) \o <<"\n">> \o JoinLines(Tail(parts))

\* the atoms that contain the word "summary" in any letter case
SummaryAtoms == {"Previous conversation summary: "}

\* "summary" in content.lower()
MentionsSummary(content) == \E i \in 1..Len(content) : content[i] \in SummaryAtoms

\* a system message that carries a summary
IsSummaryMessage(msg) == msg.role = "system" /\ MentionsSummary(msg.content)

\* a user or agent message that does not mention a summary
IsRecentMessage(msg) == msg.role \in {"user", "agent"} /\ ~MentionsSummary(msg.content)

RECURSIVE SummaryMessages(_)
SummaryMessages(messages) ==
    IF messages = <<>> THEN <<>>
    ELSE (IF IsSummaryMessage(Head(messages)) THEN <<Head(messages)>> ELSE <<>>)
           \o SummaryMessages(Tail(messages))

RECURSIVE RecentMessages(_)
RecentMessages(messages) ==
    IF messages = <<>> THEN <<>>
    ELSE (IF IsRecentMessage(Head(messages)) THEN <<Head(messages)>> ELSE <<>>)
           \o RecentMessages(Tail(messages))

\* msg.content[:300] + "..." if len(msg.content) > 300 else msg.content: of
\* the atoms only "LONG" makes a content longer than 300 characters, and the
\* cut falls inside it
RECURSIVE CutContent(_)
CutContent(content) ==
    IF content = <<>> THEN <<>>
    ELSE IF Head(content) = "LONG" THEN <<"LONG[:300]", "...">>
    ELSE <<Head(content)>> \o CutContent(Tail(content))

\* s[-6:-1] if len(s) > 6 else s[:-1]
ContextWindow(s) ==
    IF Len(s) > 6 THEN SubSeq(s, Len(s) - 5, Len(s) - 1)
    ELSE SubSeq(s, 1, Len(s) - 1)

\* the lines written for previous_validations[-2:], numbered from first
PreviousValidationLines(validations, first) ==
    [j \in 1..(4 * Len(validations)) |->
        LET val == validations[((j - 1) \div 4) + 1]
            line == ((j - 1) % 4) + 1
        IN  IF line = 1
            THEN <<"\n", "Previous Validation ">>
                   \o IntText(first + ((j - 1) \div 4)) \o <<":">>
            ELSE IF line = 2
            THEN <<"  Score: ">> \o IntText(val.confidence_score) \o <<"%">>
            ELSE IF line = 3 THEN <<"  Assessment: ">> \o val.assessment
            ELSE <<>>]

\* get_validation_user_prompt(query, research_result, conversation_history,
\* previous_validations)
get_validation_user_prompt(query, research_result, conversation_history, previous_validations) ==
    LET summary_messages == SummaryMessages(conversation_history)
        recent_messages == RecentMessages(conversation_history)
        messages_to_include ==
            IF Len(conversation_history) > 2 /\ recent_messages # <<>>
            THEN ContextWindow(recent_messages) ELSE <<>>
        summary_part ==
            IF summary_messages = <<>> THEN <<>>
            ELSE <<<<"Previous conversation summary:">>>>
                   \o [i \in 1..Len(summary_messages) |->
                          <<"  ">> \o summary_messages[i].content]
                   \o << <<>> >>
        history_part ==
            IF previous_validations = <<>> THEN <<>>
            ELSE <<<<"====">>, <<"PREVIOUS VALIDATION HISTORY">>, <<"====">>>>
                   \o PreviousValidationLines(LastTwo(previous_validations), 1)
                   \o <<<<"IMPORTANT INSTRUCTIONS:">>, <<"1. ... 5.">>, <<"====">>, <<>>>>
        context_part ==
            IF messages_to_include = <<>> THEN <<>>
            ELSE <<<<"Recent conversation context:">>>>
                   \o [i \in 1..Len(messages_to_include) |->
                          <<IF messages_to_include[i].role = "user"
                            THEN "  User: " ELSE "  Assistant: ">>
                            \o CutContent(messages_to_include[i].content)]
                   \o << <<>> >>
        question_part ==
            <<<<"Current User Question: ">> \o query, <<>>,
              <<"Research Findings:">>, research_result, <<>>,
              <<"Please validate these research findings. Address:">>,
              <<"1. ... 4.">>>>
        improvement_part ==
            IF previous_validations = <<>> THEN <<>>
            ELSE << <<>>, <<"5. IMPROVEMENT CHECK (CRITICAL)">>, <<"   a. ... d.">> >>
    IN  JoinLines(summary_part \o history_part \o context_part \o question_part
                    \o improvement_part)

\* ------------------------------------------------------------------------
\* agents/researcher.py
\* ------------------------------------------------------------------------
ResearcherResponse(messages, search_results, detailed_content, audio_summary_text) ==
    [content |-> detailed_content,
     audio_summary |-> audio_summary_text,
     metadata |->
        Dict({"agent", "query", "raw_results"},
             [agent |-> "researcher",
              query |-> _extract_user_query(messages),
              raw_results |-> search_results])]

\* ------------------------------------------------------------------------
\* graph/nodes.py
\* ------------------------------------------------------------------------
max_exchanges == 5
max_tokens == 10000

researcher_node_replaces(state, response) ==
    [research_result |-> response.content,
     messages |-> <<Message("agent", response.audio_summary)>>,
     metadata |-> DictMerge(state.metadata, response.metadata)]

\* researcher_node's return value
researcher_node(state, response) ==
    [research_result |-> response.content,
     messages |-> Append(state.messages, Message("agent", response.audio_summary)),
     metadata |-> DictMerge(state.metadata, response.metadata)]

ReadValidationHistory_no_legacy(metadata) ==
    IF metadata.keys = {} THEN <<>>
    ELSE IF Has(metadata, "validation_history") THEN metadata.val["validation_history"]
    ELSE <<>>

\* nodes.py 48-62: the history read from state.metadata
ReadValidationHistory(metadata) ==
    IF metadata.keys = {} THEN <<>>
    ELSE IF Has(metadata, "validation_history") THEN metadata.val["validation_history"]
    ELSE IF Has(metadata, "confidence_score")
         THEN <<[confidence_score |-> metadata.val["confidence_score"],
                 assessment |-> metadata.val["assessment"],
                 is_validated |-> metadata.val["is_validated"]]>>
    ELSE <<>>

\* the entry appended at nodes.py 91-97
ValidationEntry(response) ==
    [confidence_score |-> response.metadata.val["confidence_score"],
     assessment |-> response.metadata.val["assessment"],
     is_validated |-> response.metadata.val["is_validated"]]

UpdatedHistoryUntruncated(metadata, response) ==
    Append(ReadValidationHistory(metadata), ValidationEntry(response))

\* nodes.py 91-99: validation_history.append(...); validation_history[-2:]
UpdatedHistory(metadata, response) ==
    LastTwo(Append(ReadValidationHistory(metadata), ValidationEntry(response)))

\* nodes.py 90, 99
UpdatedMetadata(metadata, response) ==
    DictSet(DictMerge(metadata, response.metadata), "validation_history",
            UpdatedHistory(metadata, response))

\* nodes.py 102
UpdatedMessages(state, response) ==
    Append(state.messages, Message("agent", response.audio_summary))

\* state.metadata after validator_node ran: validation_history.append acts
\* on the list object held by state.metadata when the key was present
MetadataAfterAppend(metadata, response) ==
    IF metadata.keys # {} /\ Has(metadata, "validation_history")
    THEN DictSet(metadata, "validation_history",
                 Append(metadata.val["validation_history"], ValidationEntry(response)))
    ELSE metadata

validator_node_unmanaged(state, response, has_llm, llm_output) ==
    [validation_result |-> response.content,
     is_validated |-> response.metadata.val["is_validated"],
     messages |-> UpdatedMessages(state, response),
     metadata |-> UpdatedMetadata(state.metadata, response)]

\* validator_node's return value
validator_node(state, response, has_llm, llm_output) ==
    [validation_result |-> response.content,
     is_validated |-> response.metadata.val["is_validated"],
     messages |->
        IF has_llm
        THEN manage_conversation_context(UpdatedMessages(state, response), llm_output,
                                         max_exchanges, max_tokens)
        ELSE UpdatedMessages(state, response),
     metadata |-> UpdatedMetadata(state.metadata, response)]


\* ------------------------------------------------------------------------
\* The pipeline: one conversation thread driven turn by turn
\* (cli/conversation.py main, graph/research_validation_graph.py).  The
\* compiled graph has a checkpointer, so the graph run writes the thread's
\* checkpoint when it accepts the input and after every node's update is
\* merged.
\* ------------------------------------------------------------------------
Queries == {<<"q">>, <<"LONG">>}
SearchResults == {<<"hits">>}
DetailedContents == {<<"detail">>}
\* the audio summaries the researcher may produce for a query
ResearcherSummaries(query) == {<<"r:">> \o query}
ValidatorSummaries == {<<"v">>}
PipelineLlmSummaries == {<<"s", " ">>}

\* what the critique call's structured parse may carry
LlmValidations ==
    {[confidence_score |-> 60, assessment |-> <<"gap">>],
     [confidence_score |-> 70, assessment |-> <<"ok">>],
     [confidence_score |-> 101, assessment |-> <<"over">>]}

NoState == [exists |-> FALSE, messages |-> <<>>, metadata |-> EmptyDict]

\* a thread saved by a version that kept only the scalar validation fields
LegacyState ==
    [exists |-> TRUE,
     messages |-> <<Message("user", <<"q">>), Message("agent", <<"r:", "q">>),
                    Message("agent", <<"v">>)>>,
     metadata |-> Dict({"agent", "query", "confidence_score", "assessment",
                        "is_validated"},
                       [agent |-> "validator", query |-> <<"q">>,
                        confidence_score |-> 60, assessment |-> <<"gap">>,
                        is_validated |-> FALSE])]

InitialStores == {NoState, LegacyState}

\* the outcome of a validator turn: what the critique decided
NoOutcome == [has |-> FALSE,
              entry |-> [confidence_score |-> 0, assessment |-> <<>>,
                         is_validated |-> FALSE]]

Outcome(result) ==
    [has |-> TRUE,
     entry |-> [confidence_score |-> result.confidence_score,
                assessment |-> result.assessment,
                is_validated |-> result.confidence_score >= confidence_threshold]]

NoUpdate == [messages |-> <<>>, metadata |-> EmptyDict]

NoCritique == [called |-> FALSE, research_result |-> <<>>, query |-> <<>>,
               previous_validations |-> <<>>, prompt |-> <<>>]

\* ConversationState()
EmptyState ==
    [messages |-> <<>>, user_query |-> <<>>, research_result |-> <<>>,
     validation_result |-> <<>>, is_validated |-> FALSE, metadata |-> EmptyDict]

\* the checkpoint written for the channel values
Checkpoint(st) == [exists |-> TRUE, messages |-> st.messages, metadata |-> st.metadata]

PipeInit ==
    /\ store \in InitialStores
    /\ llmConfigured \in BOOLEAN
    /\ pc = "idle"
    /\ channels = EmptyState
    /\ update = NoUpdate
    /\ turnStart = store
    /\ stageLog = <<>>
    /\ critique = NoCritique
    /\ trigEvals = 0
    /\ trigInput = <<>>
    /\ managed = <<>>
    /\ sumCalls = <<>>
    /\ turns = 0
    /\ failedAt = "none"
    /\ turnQuery = <<>>
    /\ researcherMsg = <<>>
    /\ existing = NoState
    /\ failures = 0
    /\ validatorMsg = <<>>
    /\ thisOutcome = IF store = LegacyState
                     THEN [has |-> TRUE,
                           entry |-> [confidence_score |-> 60, assessment |-> <<"gap">>,
                                      is_validated |-> FALSE]]
                     ELSE NoOutcome
    /\ prevOutcome = NoOutcome
    /\ stageIn = EmptyState
    /\ loadRaised = FALSE

\* main 225-243: read the query, then graph.aget_state(config); an
\* exception of the load is caught and replaced by the empty state
LoadState ==
    /\ pc \in {"idle", "done", "failed"}
    /\ turns < MaxTurns
    /\ \E q \in Queries, loadOk \in BOOLEAN :
         /\ ~loadOk => failures < MaxFailures
         /\ turnQuery' = q
         /\ existing' = IF loadOk /\ store.exists THEN store ELSE NoState
         /\ failures' = IF loadOk THEN failures ELSE failures + 1
         /\ loadRaised' = ~loadOk
    /\ stageIn' = EmptyState
    /\ channels' = EmptyState
    /\ turnStart' = store
    /\ turns' = turns + 1
    /\ pc' = "loaded"
    /\ stageLog' = <<>>
    /\ critique' = NoCritique
    /\ trigEvals' = 0
    /\ trigInput' = <<>>
    /\ managed' = <<>>
    /\ sumCalls' = <<>>
    /\ failedAt' = "none"
    /\ researcherMsg' = <<>>
    /\ validatorMsg' = <<>>
    /\ update' = NoUpdate
    /\ UNCHANGED <<store, llmConfigured, thisOutcome, prevOutcome>>
    /\ UNCHANGED <<ctxVars, tidVars, loopVars, runVars>>

\* main 245-258: initial_state is built and graph.astream accepts it: the
\* input becomes the channel values and the input checkpoint is written
BeginStream ==
    /\ pc = "loaded"
    /\ channels' = [EmptyState EXCEPT
                    !.messages = Append(existing.messages, Message("user", turnQuery)),
                    !.user_query = turnQuery,
                    !.metadata = existing.metadata]
    /\ store' = Checkpoint(channels')
    /\ pc' = "streaming"
    /\ stageLog' = Append(stageLog, "START")
    /\ UNCHANGED <<update, turnStart, critique, trigEvals, trigInput, managed,
                   sumCalls, llmConfigured, turns, failedAt, turnQuery,
                   researcherMsg, existing>>
    /\ UNCHANGED failures
    /\ UNCHANGED <<validatorMsg, thisOutcome, prevOutcome>>
    /\ UNCHANGED <<stageIn, loadRaised>>
    /\ UNCHANGED <<ctxVars, tidVars, loopVars, runVars>>

\* researcher_node returns its update
ResearcherStage ==
    /\ pc = "streaming"
    /\ \E sr \in SearchResults, dc \in DetailedContents, as \in ResearcherSummaries(turnQuery) :
         /\ update' = researcher_node(channels, ResearcherResponse(channels.messages, sr, dc, as))
         /\ researcherMsg' = as
    /\ pc' = "researcher_returned"
    /\ stageLog' = Append(stageLog, "researcher")
    /\ UNCHANGED <<store, channels, turnStart, critique, trigEvals, trigInput, managed,
                   sumCalls, llmConfigured, turns, failedAt, turnQuery, existing>>
    /\ UNCHANGED failures
    /\ UNCHANGED <<validatorMsg, thisOutcome, prevOutcome>>
    /\ stageIn' = channels
    /\ UNCHANGED loadRaised
    /\ UNCHANGED <<ctxVars, tidVars, loopVars, runVars>>

\* a collaborator of the researcher raises: the exception leaves
\* researcher_node and the graph run
ResearcherFail ==
    /\ failures < MaxFailures
    /\ failures' = failures + 1
    /\ pc = "streaming"
    /\ \E at \in {"search", "synthesis", "audio_summary", "tts"} : failedAt' = at
    /\ pc' = "failed"
    /\ stageLog' = Append(stageLog, "researcher")
    /\ UNCHANGED <<store, channels, update, turnStart, critique, trigEvals, trigInput,
                   managed, sumCalls, llmConfigured, turns, turnQuery,
                   researcherMsg, existing>>
    /\ UNCHANGED <<validatorMsg, thisOutcome, prevOutcome>>
    /\ stageIn' = channels
    /\ UNCHANGED loadRaised
    /\ UNCHANGED <<ctxVars, tidVars, loopVars, runVars>>

\* the graph merges the researcher's update into the channel values and
\* writes the checkpoint (add_edge("researcher", "validator"))
MergeResearcher ==
    /\ pc = "researcher_returned"
    /\ channels' = [channels EXCEPT !.research_result = update.research_result,
                              !.messages = update.messages,
                              !.metadata = update.metadata]
    /\ store' = Checkpoint(channels')
    /\ pc' = "researched"
    /\ UNCHANGED <<update, turnStart, stageLog, critique, trigEvals, trigInput,
                   managed, sumCalls, llmConfigured, turns, failedAt, turnQuery,
                   researcherMsg, existing>>
    /\ UNCHANGED failures
    /\ UNCHANGED <<validatorMsg, thisOutcome, prevOutcome>>
    /\ UNCHANGED <<stageIn, loadRaised>>
    /\ UNCHANGED <<ctxVars, tidVars, loopVars, runVars>>

\* what _validate_research is called with (validator.py 53-58) and, with
\* an LLM client, the user prompt it builds (validator.py 145-150)
CritiqueCall(messages, history) ==
    [called |-> TRUE,
     research_result |-> _extract_research_result(messages),
     query |-> _extract_user_query(messages),
     previous_validations |-> history,
     prompt |-> IF llmConfigured
                THEN get_validation_user_prompt(_extract_user_query(messages),
                                                _extract_research_result(messages),
                                                messages, history)
                ELSE <<>>]

\* validator_node returns its update
ValidatorStage ==
    /\ pc = "researched"
    /\ \E v \in LlmValidations, as \in ValidatorSummaries, out \in PipelineLlmSummaries :
         LET history == ReadValidationHistory(channels.metadata)
             query == _extract_user_query(channels.messages)
             result == IF llmConfigured THEN v ELSE DefaultValidation(query)
             summary == IF llmConfigured THEN as
                        ELSE DefaultValidatorSummary(query, result.confidence_score)
             response == ValidatorResponse(channels.messages, result, summary)
             updated == UpdatedMessages(channels, response)
             calls == llmConfigured
                        /\ ManageSummarizes(updated, max_exchanges, max_tokens)
         IN  /\ ValidScore(result.confidence_score)
             /\ critique' = CritiqueCall(channels.messages, history)
             /\ validatorMsg' = summary
             /\ thisOutcome' = Outcome(result)
             /\ prevOutcome' = thisOutcome
             /\ update' = validator_node(channels, response, llmConfigured, out)
             /\ channels' = [channels EXCEPT
                            !.metadata = MetadataAfterAppend(channels.metadata, response)]
             /\ trigEvals' = IF llmConfigured THEN trigEvals + 1 ELSE trigEvals
             /\ trigInput' = IF llmConfigured THEN updated ELSE <<>>
             /\ managed' = manage_conversation_context(updated, out, max_exchanges,
                                                       max_tokens)
             /\ sumCalls' = IF calls
                            THEN Append(sumCalls,
                                        get_messages_to_summarize(updated, max_exchanges))
                            ELSE sumCalls
    /\ pc' = "validator_returned"
    /\ stageLog' = Append(stageLog, "validator")
    /\ UNCHANGED <<store, turnStart, llmConfigured, turns, failedAt, turnQuery,
                   researcherMsg, existing>>
    /\ UNCHANGED failures
    /\ stageIn' = channels
    /\ UNCHANGED loadRaised
    /\ UNCHANGED <<ctxVars, tidVars, loopVars, runVars>>

\* a collaborator of ValidatorAgent.process raises (the critique call, its
\* structured parse that comes back empty or carries a score ValidationResult
\* rejects, the audio summary or the TTS): the exception leaves
\* validator_node before the history is appended to
ValidatorFail ==
    /\ failures < MaxFailures
    /\ failures' = failures + 1
    /\ pc = "researched"
    /\ \E at \in {"critique", "parse", "score_range", "audio_summary", "tts"} :
         /\ at \in {"critique", "parse", "score_range", "audio_summary"} => llmConfigured
         /\ at = "score_range" =>
               \E v \in LlmValidations : ~ValidScore(v.confidence_score)
         /\ failedAt' = at
    /\ critique' = CritiqueCall(channels.messages, ReadValidationHistory(channels.metadata))
    /\ pc' = "failed"
    /\ stageLog' = Append(stageLog, "validator")
    /\ UNCHANGED <<store, channels, update, turnStart, trigEvals, trigInput, managed,
                   sumCalls, llmConfigured, turns, turnQuery, researcherMsg, existing>>
    /\ UNCHANGED <<validatorMsg, thisOutcome, prevOutcome>>
    /\ stageIn' = channels
    /\ UNCHANGED loadRaised
    /\ UNCHANGED <<ctxVars, tidVars, loopVars, runVars>>

\* the summarizer's LLM call raises inside manage_conversation_context: the
\* exception leaves validator_node after the history was appended to
SummarizeFail ==
    /\ failures < MaxFailures
    /\ failures' = failures + 1
    /\ pc = "researched"
    /\ llmConfigured
    /\ \E v \in LlmValidations, as \in ValidatorSummaries :
         LET response == ValidatorResponse(channels.messages, v, as)
             updated == UpdatedMessages(channels, response)
         IN  /\ ValidScore(v.confidence_score)
             /\ ManageSummarizes(updated, max_exchanges, max_tokens)
             /\ channels' = [channels EXCEPT
                            !.metadata = MetadataAfterAppend(channels.metadata, response)]
             /\ trigInput' = updated
             /\ sumCalls' = Append(sumCalls,
                                   get_messages_to_summarize(updated, max_exchanges))
    /\ critique' = CritiqueCall(channels.messages, ReadValidationHistory(channels.metadata))
    /\ trigEvals' = trigEvals + 1
    /\ failedAt' = "summarization"
    /\ pc' = "failed"
    /\ stageLog' = Append(stageLog, "validator")
    /\ UNCHANGED <<store, update, turnStart, managed, llmConfigured, turns,
                   turnQuery, researcherMsg, existing>>
    /\ UNCHANGED <<validatorMsg, thisOutcome, prevOutcome>>
    /\ stageIn' = channels
    /\ UNCHANGED loadRaised
    /\ UNCHANGED <<ctxVars, tidVars, loopVars, runVars>>

\* the graph merges the validator's update, writes the checkpoint and the
\* run ends (add_edge("validator", END))
MergeValidator ==
    /\ pc = "validator_returned"
    /\ channels' = [channels EXCEPT !.validation_result = update.validation_result,
                              !.is_validated = update.is_validated,
                              !.messages = update.messages,
                              !.metadata = update.metadata]
    /\ store' = Checkpoint(channels')
    /\ pc' = "done"
    /\ stageLog' = Append(stageLog, "END")
    /\ UNCHANGED <<update, turnStart, critique, trigEvals, trigInput, managed,
                   sumCalls, llmConfigured, turns, failedAt, turnQuery,
                   researcherMsg, existing>>
    /\ UNCHANGED failures
    /\ UNCHANGED <<validatorMsg, thisOutcome, prevOutcome>>
    /\ UNCHANGED <<stageIn, loadRaised>>
    /\ UNCHANGED <<ctxVars, tidVars, loopVars, runVars>>


\* ------------------------------------------------------------------------
\* utils/checkpoint_utils.py: thread identifiers, as sequences of characters
\* ------------------------------------------------------------------------
TopicCap == 50

UpperToLower == [A |-> "a", B |-> "b", T |-> "t"]

\* str.lower(), one character
LowerChar(c) == IF c \in DOMAIN UpperToLower THEN UpperToLower[c] ELSE c

Lower(text) == [i \in 1..Len(text) |-> LowerChar(text[i])]

\* str.replace(" ", "-")
SpacesToHyphens(text) == [i \in 1..Len(text) |-> IF text[i] = " " THEN "-" ELSE text[i]]

\* the characters the pattern [^a-z0-9_-] leaves in place
IdChars ==
    {"a", "b", "c", "d", "e", "f", "g", "h", "i", "j", "k", "l", "m", "n", "o",
     "p", "q", "r", "s", "t", "u", "v", "w", "x", "y", "z",
     "0", "1", "2", "3", "4", "5", "6", "7", "8", "9", "_", "-"}

\* re.sub(r"[^a-z0-9_-]", "", text)
RECURSIVE StripNonId(_)
StripNonId(text) ==
    IF text = <<>> THEN <<>>
    ELSE (IF Head(text) \in IdChars THEN <<Head(text)>> ELSE <<>>)
           \o StripNonId(Tail(text))

\* text[:n]
Take(text, n) == IF Len(text) <= n THEN text ELSE SubSeq(text, 1, n)

DefaultUser == <<"d", "e", "f", "a", "u", "l", "t", "-", "u", "s", "e", "r">>
DefaultTopic == <<"g", "e", "n", "e", "r", "a", "l">>

NormalizeUser(user) ==
    LET normalized_user == StripNonId(SpacesToHyphens(Strip(Lower(user))))
    IN  IF normalized_user = <<>> THEN DefaultUser ELSE normalized_user

NormalizeTopic_uncapped(topic) ==
    LET normalized_topic == StripNonId(SpacesToHyphens(Strip(Lower(topic))))
    IN  IF normalized_topic = <<>> THEN DefaultTopic ELSE normalized_topic

NormalizeTopic(topic) ==
    LET normalized_topic ==
            Take(StripNonId(SpacesToHyphens(Strip(Lower(topic)))), TopicCap)
    IN  IF normalized_topic = <<>> THEN DefaultTopic ELSE normalized_topic

normalize_thread_id(user, topic) ==
    NormalizeUser(user) \o <<":">> \o NormalizeTopic(topic)

\* the positions of ":" in a text
ColonPositions(text) == {i \in 1..Len(text) : text[i] = ":"}

Min(S) == CHOOSE x \in S : \A y \in S : x <= y
Max(S) == CHOOSE x \in S : \A y \in S : x >= y

\* parse_thread_id's None
NotParsed == [ok |-> FALSE, user |-> <<>>, topic |-> <<>>]

\* thread_id.split(":", 1) cut at the given colon
SplitAt(thread_id, i) ==
    [ok |-> TRUE,
     user |-> SubSeq(thread_id, 1, i - 1),
     topic |-> SubSeq(thread_id, i + 1, Len(thread_id))]

parse_thread_id_last(thread_id) ==
    IF ColonPositions(thread_id) = {} THEN NotParsed
    ELSE SplitAt(thread_id, Max(ColonPositions(thread_id)))

parse_thread_id_swapped(thread_id) ==
    IF ColonPositions(thread_id) = {} THEN NotParsed
    ELSE LET parts == SplitAt(thread_id, Min(ColonPositions(thread_id)))
         IN  [ok |-> TRUE, user |-> parts.topic, topic |-> parts.user]

parse_thread_id(thread_id) ==
    IF ColonPositions(thread_id) = {} THEN NotParsed
    ELSE SplitAt(thread_id, Min(ColonPositions(thread_id)))

\* the characters of the model in the order of their code points
CodeOrder ==
    <<"\t", " ", "!", "-", "0", "1", "2", "3", "4", "5", "6", "7", "8", "9", ":",
      "A", "B", "T", "_", "a", "b", "c", "d", "e", "f", "g", "h", "i", "j", "k",
      "l", "m", "n", "o", "p", "q", "r", "s", "t", "u", "v", "w", "x", "y", "z">>

CharRank(c) == CHOOSE i \in 1..Len(CodeOrder) : CodeOrder[i] = c

\* a <= b for two strings, as Python and SQLite's BINARY collation compare
RECURSIVE StrLeq(_, _)
StrLeq(a, b) ==
    IF a = <<>> THEN TRUE
    ELSE IF b = <<>> THEN FALSE
    ELSE IF Head(a) = Head(b) THEN StrLeq(Tail(a), Tail(b))
    ELSE CharRank(Head(a)) < CharRank(Head(b))

\* sorted(list(S)) for a set of strings
RECURSIVE Sorted(_)
Sorted(S) ==
    IF S = {} THEN <<>>
    ELSE LET least == CHOOSE x \in S : \A y \in S : StrLeq(x, y)
         IN  <<least>> \o Sorted(S \ {least})

Range(s) == {s[i] : i \in 1..Len(s)}

\* list_all_thread_ids: the distinct thread_id values of the checkpoints
\* table in ascending order; [] when the database file is absent or the
\* query raises sqlite3.Error
list_all_thread_ids(rows, readable) ==
    IF readable THEN Sorted(Range(rows)) ELSE <<>>

\* the user parts of the identifiers that parse
ParsedUsers(thread_ids) ==
    {parse_thread_id(thread_ids[i]).user :
        i \in {j \in 1..Len(thread_ids) : parse_thread_id(thread_ids[j]).ok}}

\* list_users: the sorted distinct user names
list_users(thread_ids) == Sorted(ParsedUsers(thread_ids))

\* the topics of the identifiers that parse and whose user part, lower-cased,
\* equals the lower-cased name
TopicsOfUser(thread_ids, user) ==
    {parse_thread_id(thread_ids[i]).topic :
        i \in {j \in 1..Len(thread_ids) :
                  /\ parse_thread_id(thread_ids[j]).ok
                  /\ Lower(parse_thread_id(thread_ids[j]).user) = Lower(user)}}

\* list_topics_for_user: the sorted distinct topics of the user
list_topics_for_user(thread_ids, user) == Sorted(TopicsOfUser(thread_ids, user))

\* find_thread_id_for_user_topic's None
NotFound == [found |-> FALSE, id |-> <<>>]

\* find_thread_id_for_user_topic: the first identifier whose parts equal the
\* lower-cased user and topic
RECURSIVE find_thread_id_for_user_topic(_, _, _)
find_thread_id_for_user_topic(thread_ids, user, topic) ==
    IF thread_ids = <<>> THEN NotFound
    ELSE LET parsed == parse_thread_id(Head(thread_ids))
         IN  IF /\ parsed.ok
                /\ Lower(parsed.user) = Lower(user)
                /\ Lower(parsed.topic) = Lower(topic)
             THEN [found |-> TRUE, id |-> Head(thread_ids)]
             ELSE find_thread_id_for_user_topic(Tail(thread_ids), user, topic)

\* ------------------------------------------------------------------------
\* Thread-identifier specification: normalize_thread_id applied to every
\* bounded (user, topic) and to a second spelling of the same pair
\* ------------------------------------------------------------------------
Alphabet == {"A", "a", " ", "\t", "!"}

RECURSIVE Repeat(_, _)
Repeat(c, n) == IF n = 0 THEN <<>> ELSE <<c>> \o Repeat(c, n - 1)

\* names that spell the substituted defaults
SpelledDefaultUsers ==
    {DefaultUser,
     <<"d", "e", "f", "a", "u", "l", "t", " ", "u", "s", "e", "r">>}
SpelledDefaultTopics == {DefaultTopic}

UserInputs == SeqsUpTo(Alphabet, MaxUserLen) \cup SpelledDefaultUsers

\* short topics, and topics one character over the cap before the tail
TopicInputs ==
    SeqsUpTo(Alphabet, MaxTopicLen)
      \cup {Repeat("a", TopicCap - 1) \o s : s \in SeqsUpTo(Alphabet, LongTailLen)}
      \cup SpelledDefaultTopics

\* identifiers handed to parse_thread_id: with no, one or several colons
RawIdAlphabet == {"a", "-", ":"}
RawIds == SeqsUpTo(RawIdAlphabet, MaxRawLen)

PlainNames == {<<>>, <<"a">>}

\* runs of whitespace collapsed to one space
RECURSIVE CollapseWs(_)
CollapseWs(text) ==
    IF text = <<>> THEN <<>>
    ELSE IF Head(text) \in Whitespace
         THEN <<" ">> \o CollapseWs(LStrip(text))
         ELSE <<Head(text)>> \o CollapseWs(Tail(text))

\* two texts that differ only in letter case or in whitespace (leading,
\* trailing, repeated, or another whitespace character)
SameUpToCaseAndWhitespace(a, b) ==
    Strip(CollapseWs(Lower(a))) = Strip(CollapseWs(Lower(b)))

\* a pair in which at least one name is one of the plain ones, or an
\* identifier to parse
TidInit ==
    /\ \/ nUser \in UserInputs /\ nTopic \in PlainNames /\ nRaw = <<>>
       \/ nUser \in PlainNames /\ nTopic \in TopicInputs /\ nRaw = <<>>
       \/ nUser = <<>> /\ nTopic = <<>> /\ nRaw \in RawIds
    /\ nParsed = NotParsed
    /\ nRe = <<>>
    /\ nUser2 = nUser
    /\ nTopic2 = nTopic
    /\ nId = <<>>
    /\ nId2 = <<>>
    /\ nOp = "init"
    /\ nIds = <<>>
    /\ nFound = NotFound
    /\ nTopics = <<>>
    /\ nSelectedUser = <<>>
    /\ nSelectedTopic = <<>>
    /\ nThreadId = <<>>

\* the user name typed again with another case or other whitespace
RespellUser ==
    /\ nOp = "init"
    /\ \E u \in UserInputs :
         /\ u # nUser
         /\ SameUpToCaseAndWhitespace(nUser, u)
         /\ nUser2' = u
    /\ nOp' = "respelled"
    /\ UNCHANGED <<nUser, nTopic, nTopic2, nId, nId2, nRaw, nParsed, nRe, tidMore>>
    /\ UNCHANGED <<ctxVars, pipeVars, loopVars, runVars>>

\* the topic typed again with another case or other whitespace
RespellTopic ==
    /\ nOp = "init"
    /\ \E t \in TopicInputs :
         /\ t # nTopic
         /\ SameUpToCaseAndWhitespace(nTopic, t)
         /\ nTopic2' = t
    /\ nOp' = "respelled"
    /\ UNCHANGED <<nUser, nTopic, nUser2, nId, nId2, nRaw, nParsed, nRe, tidMore>>
    /\ UNCHANGED <<ctxVars, pipeVars, loopVars, runVars>>

\* normalize_thread_id(user, topic) for both spellings
NormalizeThreadId ==
    /\ nOp \in {"init", "respelled"}
    /\ nId' = normalize_thread_id(nUser, nTopic)
    /\ nId2' = normalize_thread_id(nUser2, nTopic2)
    /\ nOp' = "normalized"
    /\ UNCHANGED <<nUser, nTopic, nUser2, nTopic2, nRaw, nParsed, nRe, tidMore>>
    /\ UNCHANGED <<ctxVars, pipeVars, loopVars, runVars>>

\* parse_thread_id(thread_id) on an arbitrary identifier
ParseThreadId ==
    /\ nOp = "init"
    /\ nParsed' = parse_thread_id(nRaw)
    /\ nOp' = "parsed"
    /\ UNCHANGED <<nUser, nTopic, nUser2, nTopic2, nId, nId2, nRaw, nRe, tidMore>>
    /\ UNCHANGED <<ctxVars, pipeVars, loopVars, runVars>>

\* parse_thread_id on a normalized identifier, then normalize_thread_id on
\* the parts it returned
Renormalize ==
    /\ nOp = "normalized"
    /\ nParsed' = parse_thread_id(nId)
    /\ nRe' = IF nParsed'.ok THEN normalize_thread_id(nParsed'.user, nParsed'.topic)
              ELSE <<>>
    /\ nOp' = "renormalized"
    /\ UNCHANGED <<nUser, nTopic, nUser2, nTopic2, nId, nId2, nRaw, tidMore>>
    /\ UNCHANGED <<ctxVars, pipeVars, loopVars, runVars>>

\* identifiers of other conversations already in the checkpoint database
OtherIds ==
    <<normalize_thread_id(<<"b">>, <<"b">>), normalize_thread_id(<<"a">>, <<"b">>),
      normalize_thread_id(<<"a">>, <<"a">>)>>

\* the thread_id column of the checkpoints table, row by row: up to
\* MaxStored other conversations, then two checkpoints of the one just saved
StoredRows(id) ==
    {Take(OtherIds, n) \o <<id, id>> : n \in 0..MaxStored}

\* the same names were given both times
SameNamesAgain == nUser2 = nUser /\ nTopic2 = nTopic

\* the conversation was saved under normalize_thread_id(user, topic);
\* find_thread_id_for_user_topic and list_topics_for_user are applied to the
\* same user and topic and to what list_all_thread_ids returns
LookupThread ==
    /\ nOp = "normalized"
    /\ SameNamesAgain
    /\ \E rows \in StoredRows(nId), readable \in BOOLEAN :
         /\ nIds' = list_all_thread_ids(rows, readable)
         /\ nFound' = find_thread_id_for_user_topic(nIds', nUser, nTopic)
         /\ nTopics' = list_topics_for_user(nIds', nUser)
    /\ nOp' = "looked_up"
    /\ UNCHANGED <<nUser, nTopic, nUser2, nTopic2, nId, nId2, nRaw, nParsed, nRe>>
    /\ UNCHANGED <<nSelectedUser, nSelectedTopic, nThreadId>>
    /\ UNCHANGED <<ctxVars, pipeVars, loopVars, runVars>>

\* main 134-162: the user picked from the list, or the name typed at
\* "Enter new user name" and stripped; an empty name is asked for again when
\* users are listed and becomes "default-user" when none is
SelectableUsers(users, typed) ==
    IF users # <<>>
    THEN Range(users) \cup (IF Strip(typed) # <<>> THEN {Strip(typed)} ELSE {})
    ELSE {IF Strip(typed) = <<>> THEN DefaultUser ELSE Strip(typed)}

\* main 172-200: the same for the topic, with "general"
SelectableTopics(topics, typed) ==
    IF topics # <<>>
    THEN Range(topics) \cup (IF Strip(typed) # <<>> THEN {Strip(typed)} ELSE {})
    ELSE {IF Strip(typed) = <<>> THEN DefaultTopic ELSE Strip(typed)}

\* main 126-205 on a later run: the stored identifiers are listed, a user
\* and a topic are selected or typed, and the thread identifier is built
SelectThread ==
    /\ nOp = "normalized"
    /\ SameNamesAgain
    /\ \E rows \in StoredRows(nId), readable \in BOOLEAN :
         LET thread_ids == list_all_thread_ids(rows, readable)
         IN  \E selected_user \in SelectableUsers(list_users(thread_ids), nUser) :
               LET topics == list_topics_for_user(thread_ids, selected_user)
               IN  \E selected_topic \in SelectableTopics(topics, nTopic) :
                     /\ nIds' = thread_ids
                     /\ nSelectedUser' = selected_user
                     /\ nTopics' = topics
                     /\ nSelectedTopic' = selected_topic
                     /\ nThreadId' = normalize_thread_id(selected_user, selected_topic)
    /\ nOp' = "selected"
    /\ UNCHANGED <<nUser, nTopic, nUser2, nTopic2, nId, nId2, nRaw, nParsed, nRe>>
    /\ UNCHANGED nFound
    /\ UNCHANGED <<ctxVars, pipeVars, loopVars, runVars>>

\* ------------------------------------------------------------------------
\* gradio_app.py: the shared event loop (lines 31-46, executed before line
\* 279) and threads that call get_event_loop as the sync_* handlers do: each
\* hands a coroutine to the loop it got.  A loop is a positive number, None
\* is 0.
\* ------------------------------------------------------------------------
Callers == 1..MaxCallers

NoLoop == 0

\* event_loop.is_closed(): nothing in gradio_app.py closes or stops a loop
IsClosed(loop) == FALSE

\* executor = ThreadPoolExecutor(max_workers=1): its one worker
IdleWorker == [pc |-> "idle", set |-> NoLoop, loop |-> NoLoop]

LoopInit ==
    /\ event_loop = NoLoop
    /\ lCreated = 0
    /\ lQueued = 0
    /\ lWorker = IdleWorker
    /\ lPc = [c \in Callers |-> "start"]
    /\ lHanded = [c \in Callers |-> NoLoop]
    /\ lScheduled = [c \in Callers |-> FALSE]
    /\ lDone = [c \in Callers |-> FALSE]
    /\ lCalls = [c \in Callers |-> 0]
    /\ lKind = [c \in Callers |-> "none"]
    /\ lRounds = [c \in Callers |-> 0]

\* the handlers that reach get_event_loop: run_async (line 284) and
\* sync_process (line 321)
Handlers == {"run_async", "sync_process"}

\* process_conversation_stream yields once or twice (lines 179, 231, 255)
StreamYields == 2

\* a handler starts on the thread; get_event_loop line 38: the test of the
\* global
GetEventLoopCheck(c) ==
    /\ lPc[c] = "start"
    /\ lCalls[c] < MaxCalls
    /\ \E h \in Handlers : lKind' = [lKind EXCEPT ![c] = h]
    /\ lRounds' = [lRounds EXCEPT ![c] = 0]
    /\ lPc' = [lPc EXCEPT ![c] = IF event_loop = NoLoop \/ IsClosed(event_loop)
                                  THEN "create" ELSE "return"]
    /\ UNCHANGED <<event_loop, lCreated, lQueued, lWorker, lHanded, lScheduled,
                   lDone, lCalls>>
    /\ UNCHANGED <<ctxVars, pipeVars, tidVars, runVars>>

\* line 39: event_loop = asyncio.new_event_loop()
GetEventLoopCreate(c) ==
    /\ lPc[c] = "create"
    /\ lCreated' = lCreated + 1
    /\ event_loop' = lCreated + 1
    /\ lPc' = [lPc EXCEPT ![c] = "submit"]
    /\ UNCHANGED <<lQueued, lWorker, lHanded, lScheduled, lDone, lCalls, lKind, lRounds>>
    /\ UNCHANGED <<ctxVars, pipeVars, tidVars, runVars>>

\* line 45: executor.submit(run_loop)
GetEventLoopSubmit(c) ==
    /\ lPc[c] = "submit"
    /\ lQueued' = lQueued + 1
    /\ lPc' = [lPc EXCEPT ![c] = "return"]
    /\ UNCHANGED <<event_loop, lCreated, lWorker, lHanded, lScheduled, lDone, lCalls,
                   lKind, lRounds>>
    /\ UNCHANGED <<ctxVars, pipeVars, tidVars, runVars>>

\* line 46: return event_loop, the global as it is now
GetEventLoopReturn(c) ==
    /\ lPc[c] = "return"
    /\ lHanded' = [lHanded EXCEPT ![c] = event_loop]
    /\ lPc' = [lPc EXCEPT ![c] = "schedule"]
    /\ UNCHANGED <<event_loop, lCreated, lQueued, lWorker, lScheduled, lDone, lCalls,
                   lKind, lRounds>>
    /\ UNCHANGED <<ctxVars, pipeVars, tidVars, runVars>>

\* run_async line 285, sync_process line 326:
\* asyncio.run_coroutine_threadsafe(coro, loop) on the loop the handler holds
RunCoroutineThreadsafe(c) ==
    /\ lPc[c] = "schedule"
    /\ lCalls[c] < MaxCalls
    /\ lScheduled' = [lScheduled EXCEPT ![c] = TRUE]
    /\ lPc' = [lPc EXCEPT ![c] = "wait"]
    /\ UNCHANGED <<event_loop, lCreated, lQueued, lWorker, lHanded, lDone, lCalls,
                   lKind, lRounds>>
    /\ UNCHANGED <<ctxVars, pipeVars, tidVars, runVars>>

\* run_async line 286: future.result() returns once the coroutine has run,
\* and the handler returns
FutureResult(c) ==
    /\ lPc[c] = "wait"
    /\ lKind[c] = "run_async"
    /\ lDone[c]
    /\ lPc' = [lPc EXCEPT ![c] = "start"]
    /\ lCalls' = [lCalls EXCEPT ![c] = lCalls[c] + 1]
    /\ lScheduled' = [lScheduled EXCEPT ![c] = FALSE]
    /\ lDone' = [lDone EXCEPT ![c] = FALSE]
    /\ UNCHANGED <<event_loop, lCreated, lQueued, lWorker, lHanded, lKind, lRounds>>
    /\ UNCHANGED <<ctxVars, pipeVars, tidVars, runVars>>

\* sync_process lines 327-328: future.result() returns what the generator
\* yielded, and the loop goes back to line 326 with the same loop
SyncProcessYield(c) ==
    /\ lPc[c] = "wait"
    /\ lKind[c] = "sync_process"
    /\ lDone[c]
    /\ lRounds[c] < StreamYields
    /\ lRounds' = [lRounds EXCEPT ![c] = lRounds[c] + 1]
    /\ lPc' = [lPc EXCEPT ![c] = "schedule"]
    /\ lCalls' = [lCalls EXCEPT ![c] = lCalls[c] + 1]
    /\ lScheduled' = [lScheduled EXCEPT ![c] = FALSE]
    /\ lDone' = [lDone EXCEPT ![c] = FALSE]
    /\ UNCHANGED <<event_loop, lCreated, lQueued, lWorker, lHanded, lKind>>
    /\ UNCHANGED <<ctxVars, pipeVars, tidVars, runVars>>

\* sync_process lines 327, 329-330: future.result() raises
\* StopAsyncIteration after at least one yield, and the handler ends
SyncProcessStop(c) ==
    /\ lPc[c] = "wait"
    /\ lKind[c] = "sync_process"
    /\ lDone[c]
    /\ lRounds[c] >= 1
    /\ lRounds' = [lRounds EXCEPT ![c] = 0]
    /\ lPc' = [lPc EXCEPT ![c] = "start"]
    /\ lCalls' = [lCalls EXCEPT ![c] = lCalls[c] + 1]
    /\ lScheduled' = [lScheduled EXCEPT ![c] = FALSE]
    /\ lDone' = [lDone EXCEPT ![c] = FALSE]
    /\ UNCHANGED <<event_loop, lCreated, lQueued, lWorker, lHanded, lKind>>
    /\ UNCHANGED <<ctxVars, pipeVars, tidVars, runVars>>

\* sync_process line 327: future.result() raises what the generator raised,
\* an exception other than StopAsyncIteration (a stage of the graph failed,
\* line 219); nothing in sync_process catches it and the handler ends, after
\* no yield or after the researcher's
SyncProcessRaise(c) ==
    /\ lPc[c] = "wait"
    /\ lKind[c] = "sync_process"
    /\ lDone[c]
    /\ lRounds[c] < StreamYields
    /\ lRounds' = [lRounds EXCEPT ![c] = 0]
    /\ lPc' = [lPc EXCEPT ![c] = "start"]
    /\ lCalls' = [lCalls EXCEPT ![c] = lCalls[c] + 1]
    /\ lScheduled' = [lScheduled EXCEPT ![c] = FALSE]
    /\ lDone' = [lDone EXCEPT ![c] = FALSE]
    /\ UNCHANGED <<event_loop, lCreated, lQueued, lWorker, lHanded, lKind>>
    /\ UNCHANGED <<ctxVars, pipeVars, tidVars, runVars>>

\* the worker takes a queued run_loop; line 42:
\* asyncio.set_event_loop(event_loop) reads the global
WorkerSetEventLoop ==
    /\ lWorker.pc = "idle"
    /\ lQueued > 0
    /\ lQueued' = lQueued - 1
    /\ lWorker' = [pc |-> "set", set |-> event_loop, loop |-> NoLoop]
    /\ UNCHANGED <<event_loop, lCreated, lPc, lHanded, lScheduled, lDone, lCalls,
                   lKind, lRounds>>
    /\ UNCHANGED <<ctxVars, pipeVars, tidVars, runVars>>

\* line 43: event_loop.run_forever() reads the global again and never returns
WorkerRunForever ==
    /\ lWorker.pc = "set"
    /\ lWorker' = [lWorker EXCEPT !.pc = "running", !.loop = event_loop]
    /\ UNCHANGED <<event_loop, lCreated, lQueued, lPc, lHanded, lScheduled, lDone,
                   lCalls, lKind, lRounds>>
    /\ UNCHANGED <<ctxVars, pipeVars, tidVars, runVars>>

\* the running loop executes a coroutine that was scheduled on it
LoopExecute(c) ==
    /\ lWorker.pc = "running"
    /\ lScheduled[c]
    /\ ~lDone[c]
    /\ lHanded[c] = lWorker.loop
    /\ lDone' = [lDone EXCEPT ![c] = TRUE]
    /\ UNCHANGED <<event_loop, lCreated, lQueued, lWorker, lPc, lHanded, lScheduled,
                   lCalls, lKind, lRounds>>
    /\ UNCHANGED <<ctxVars, pipeVars, tidVars, runVars>>

\* ------------------------------------------------------------------------
\* Turns in flight together.  gradio_app.py cannot serve one: line 279,
\* app = ConversationApp(), runs __init__, whose line 54 reads
\* settings.checkpoint_db_path, and Settings has no such field.  Turns run
\* together as runs of cli/conversation.py main, each a process with its own
\* agents, graph and checkpointer, all on the one file checkpoints.db
\* (line 120).
\* ------------------------------------------------------------------------
\* config.py 133-176: the fields of Settings (extra="ignore", frozen)
SettingsFields == {"tts_provider", "elevenlabs", "groq", "google_tts", "openai",
                   "tavily"}

\* gradio_app.py line 54: Path(settings.checkpoint_db_path) raises
\* AttributeError unless the attribute exists
ConversationAppConstructs == "checkpoint_db_path" \in SettingsFields

\* the two runs of main in flight together
Runs == {1, 2}

\* selected_user and selected_topic (main 126-202)
RunUsers == {<<"a">>, <<"A">>, <<"b">>}
RunTopics == {<<"t">>}

RunThreadIds == {normalize_thread_id(u, t) : u \in RunUsers, t \in RunTopics}

\* what a run is given: the names selected, the question after line 225-227
\* and what the services answer
RunInputs ==
    [user : RunUsers, topic : RunTopics, query : Queries,
     search_results : SearchResults, detailed_content : DetailedContents,
     validation : {v \in LlmValidations : ValidScore(v.confidence_score)},
     validator_summary : ValidatorSummaries, llm_summary : PipelineLlmSummaries]

\* the researcher's audio summary for the turn's query
ResearcherSummaryOf(inp) == CHOOSE rs \in ResearcherSummaries(inp.query) : TRUE

\* graph.aget_state(config).values of the thread
aget_state(db, thread_id) ==
    IF db[thread_id].exists THEN db[thread_id] ELSE NoState

PutCheckpoint_shared(db, thread_id, st) ==
    [id \in DOMAIN db |-> Checkpoint(st)]

\* the checkpointer's write for config["configurable"]["thread_id"]
PutCheckpoint(db, thread_id, st) ==
    [db EXCEPT
       ![thread_id] = Checkpoint(st)]

\* main 245-249: initial_state
InitialState(prior, query) ==
    [EmptyState EXCEPT
       !.messages = Append(prior.messages, Message("user", query)),
       !.user_query = query,
       !.metadata = prior.metadata]

\* the channel values after the researcher's update is merged
ApplyResearcher(ch, upd) ==
    [ch EXCEPT !.research_result = upd.research_result,
               !.messages = upd.messages,
               !.metadata = upd.metadata]

\* the channel values after the validator's update is merged
ApplyValidator(ch, upd) ==
    [ch EXCEPT !.validation_result = upd.validation_result,
               !.is_validated = upd.is_validated,
               !.messages = upd.messages,
               !.metadata = upd.metadata]

\* researcher_node on the channel values, with the turn's answers
ResearcherUpdate(ch, inp) ==
    researcher_node(ch, ResearcherResponse(ch.messages, inp.search_results,
                                           inp.detailed_content,
                                           ResearcherSummaryOf(inp)))

\* validator_node on the channel values, with the turn's answers; main
\* gives the validator an LLM client (lines 112-116)
ValidatorUpdate(ch, inp) ==
    validator_node(ch, ValidatorResponse(ch.messages, inp.validation,
                                         inp.validator_summary),
                   TRUE, inp.llm_summary)

\* main 231-243: existing_messages and existing_metadata after the try
LoadExisting(db, thread_id, load_ok) ==
    IF load_ok THEN aget_state(db, thread_id) ELSE NoState

\* the checkpoint a turn leaves when it runs with no other turn in flight,
\* on the database as it was and with the same outcome of its load
AloneTurn(db, thread_id, load_ok, inp) ==
    LET prior == LoadExisting(db, thread_id, load_ok)
        input == InitialState(prior, inp.query)
        researched == ApplyResearcher(input, ResearcherUpdate(input, inp))
    IN  Checkpoint(ApplyValidator(researched, ValidatorUpdate(researched, inp)))

\* two processes have entered main (line 308) on a checkpoints.db that
\* earlier runs left
MainInit ==
    /\ wDb0 \in [RunThreadIds -> InitialStores]
    /\ wDb = wDb0
    /\ wGraphs = 0
    /\ wIn \in [Runs -> RunInputs]
    /\ wPc = [t \in Runs |-> "start"]
    /\ wTid = [t \in Runs |-> <<>>]
    /\ wExisting = [t \in Runs |-> NoState]
    /\ wChannels = [t \in Runs |-> EmptyState]
    /\ wUpdate = [t \in Runs |-> NoUpdate]
    /\ wOverlapped = FALSE
    /\ wLoadRaised = [t \in Runs |-> FALSE]

\* gradio_app.py after line 279: __init__ raised at line 54, there is no app,
\* no graph is compiled and no turn is taken
WebInit ==
    /\ ~ConversationAppConstructs
    /\ wDb0 \in [RunThreadIds -> InitialStores]
    /\ wDb = wDb0
    /\ wGraphs = 0
    /\ wIn = <<>>
    /\ wPc = [t \in Runs |-> "no_app"]
    /\ wTid = [t \in Runs |-> <<>>]
    /\ wExisting = [t \in Runs |-> NoState]
    /\ wChannels = [t \in Runs |-> EmptyState]
    /\ wUpdate = [t \in Runs |-> NoUpdate]
    /\ wOverlapped = FALSE
    /\ wLoadRaised = [t \in Runs |-> FALSE]

\* a turn between its load and its last write
InFlight(t) ==
    wPc[t] \in {"loaded", "streaming", "researcher_returned", "researched",
                "validator_returned"}

OthersInFlight(t) == \E o \in Runs \ {t} : InFlight(o)

\* main 79-123: the services and agents are built, the checkpointer is
\* opened on checkpoints.db and the graph compiled, one of each per process
MainCompile(t) ==
    /\ wPc[t] = "start"
    /\ wGraphs' = wGraphs + 1
    /\ wPc' = [wPc EXCEPT ![t] = "ready"]
    /\ UNCHANGED <<wDb, wDb0, wIn, wTid, wExisting, wChannels, wUpdate, wOverlapped>>
    /\ UNCHANGED wLoadRaised
    /\ UNCHANGED <<ctxVars, pipeVars, tidVars, loopVars>>

\* main 205-243: the thread identifier, the display of what is stored and
\* graph.aget_state(config); when the load raises, the except clause goes on
\* with nothing loaded
MainLoad(t) ==
    /\ wPc[t] = "ready"
    /\ wTid' = [wTid EXCEPT ![t] = normalize_thread_id(wIn[t].user, wIn[t].topic)]
    /\ \E load_ok \in BOOLEAN :
         /\ wExisting' = [wExisting EXCEPT
                            ![t] = LoadExisting(wDb, wTid'[t], load_ok)]
         /\ wLoadRaised' = [wLoadRaised EXCEPT ![t] = ~load_ok]
    /\ wPc' = [wPc EXCEPT ![t] = "loaded"]
    /\ UNCHANGED <<wDb, wDb0, wGraphs, wIn, wChannels, wUpdate, wOverlapped>>
    /\ UNCHANGED <<ctxVars, pipeVars, tidVars, loopVars>>

\* main 245-258: initial_state is built and graph.astream accepts it
MainBegin(t) ==
    /\ wPc[t] = "loaded"
    /\ wChannels' = [wChannels EXCEPT ![t] = InitialState(wExisting[t], wIn[t].query)]
    /\ wDb' = PutCheckpoint(wDb, wTid[t], wChannels'[t])
    /\ wOverlapped' = (wOverlapped \/ OthersInFlight(t))
    /\ wPc' = [wPc EXCEPT ![t] = "streaming"]
    /\ UNCHANGED <<wDb0, wGraphs, wIn, wTid, wExisting, wUpdate>>
    /\ UNCHANGED wLoadRaised
    /\ UNCHANGED <<ctxVars, pipeVars, tidVars, loopVars>>

\* researcher_node returns its update
MainResearcher(t) ==
    /\ wPc[t] = "streaming"
    /\ wUpdate' = [wUpdate EXCEPT ![t] = ResearcherUpdate(wChannels[t], wIn[t])]
    /\ wPc' = [wPc EXCEPT ![t] = "researcher_returned"]
    /\ UNCHANGED <<wDb, wDb0, wGraphs, wIn, wTid, wExisting, wChannels, wOverlapped>>
    /\ UNCHANGED wLoadRaised
    /\ UNCHANGED <<ctxVars, pipeVars, tidVars, loopVars>>

\* the researcher's update is merged and the checkpoint written
MainMergeResearcher(t) ==
    /\ wPc[t] = "researcher_returned"
    /\ wChannels' = [wChannels EXCEPT ![t] = ApplyResearcher(wChannels[t], wUpdate[t])]
    /\ wDb' = PutCheckpoint(wDb, wTid[t], wChannels'[t])
    /\ wOverlapped' = (wOverlapped \/ OthersInFlight(t))
    /\ wPc' = [wPc EXCEPT ![t] = "researched"]
    /\ UNCHANGED <<wDb0, wGraphs, wIn, wTid, wExisting, wUpdate>>
    /\ UNCHANGED wLoadRaised
    /\ UNCHANGED <<ctxVars, pipeVars, tidVars, loopVars>>

\* validator_node returns its update; its append acts on the list held by
\* the state it was given
MainValidator(t) ==
    /\ wPc[t] = "researched"
    /\ wUpdate' = [wUpdate EXCEPT ![t] = ValidatorUpdate(wChannels[t], wIn[t])]
    /\ wChannels' = [wChannels EXCEPT ![t].metadata =
                        MetadataAfterAppend(wChannels[t].metadata,
                            ValidatorResponse(wChannels[t].messages, wIn[t].validation,
                                              wIn[t].validator_summary))]
    /\ wPc' = [wPc EXCEPT ![t] = "validator_returned"]
    /\ UNCHANGED <<wDb, wDb0, wGraphs, wIn, wTid, wExisting, wOverlapped>>
    /\ UNCHANGED wLoadRaised
    /\ UNCHANGED <<ctxVars, pipeVars, tidVars, loopVars>>

\* the validator's update is merged, the checkpoint written, the run ends
MainMergeValidator(t) ==
    /\ wPc[t] = "validator_returned"
    /\ wChannels' = [wChannels EXCEPT ![t] = ApplyValidator(wChannels[t], wUpdate[t])]
    /\ wDb' = PutCheckpoint(wDb, wTid[t], wChannels'[t])
    /\ wOverlapped' = (wOverlapped \/ OthersInFlight(t))
    /\ wPc' = [wPc EXCEPT ![t] = "done"]
    /\ UNCHANGED <<wDb0, wGraphs, wIn, wTid, wExisting, wUpdate>>
    /\ UNCHANGED wLoadRaised
    /\ UNCHANGED <<ctxVars, pipeVars, tidVars, loopVars>>

\* ------------------------------------------------------------------------
\* Specifications
\* ------------------------------------------------------------------------
CtxIdle ==
    /\ cMsgs = <<>>
    /\ cK = 0
    /\ cMaxTok = 0
    /\ cOp = "off"
    /\ cIn = <<>>
    /\ cFired = FALSE
    /\ cCompacted = FALSE
    /\ cPrevCompacted = FALSE
    /\ cCalls = <<>>
    /\ cLlm = <<>>
    /\ cTrig = FALSE
    /\ cRuns = 0
    /\ cSum = <<>>
    /\ cKeep = <<>>
    /\ cK2 = 0
    /\ cMaxTok2 = 0
    /\ cTrig2 = FALSE
    /\ cExtra = <<>>
    /\ cCountIn = 0
    /\ cCountOut = 0
    /\ cTokIn = 0
    /\ cTokOut = 0

PipeIdle ==
    /\ store = NoState
    /\ llmConfigured = TRUE
    /\ pc = "off"
    /\ channels = EmptyState
    /\ update = NoUpdate
    /\ turnStart = NoState
    /\ stageLog = <<>>
    /\ critique = NoCritique
    /\ trigEvals = 0
    /\ trigInput = <<>>
    /\ managed = <<>>
    /\ sumCalls = <<>>
    /\ turns = 0
    /\ failedAt = "none"
    /\ turnQuery = <<>>
    /\ researcherMsg = <<>>
    /\ existing = NoState
    /\ failures = 0
    /\ validatorMsg = <<>>
    /\ thisOutcome = NoOutcome
    /\ prevOutcome = NoOutcome
    /\ stageIn = EmptyState
    /\ loadRaised = FALSE

TidIdle ==
    /\ nUser = <<>>
    /\ nTopic = <<>>
    /\ nUser2 = <<>>
    /\ nTopic2 = <<>>
    /\ nId = <<>>
    /\ nId2 = <<>>
    /\ nOp = "off"
    /\ nRaw = <<>>
    /\ nParsed = NotParsed
    /\ nRe = <<>>
    /\ nIds = <<>>
    /\ nFound = NotFound
    /\ nTopics = <<>>
    /\ nSelectedUser = <<>>
    /\ nSelectedTopic = <<>>
    /\ nThreadId = <<>>

LoopIdle ==
    /\ event_loop = NoLoop
    /\ lCreated = 0
    /\ lQueued = 0
    /\ lWorker = [pc |-> "off", set |-> NoLoop, loop |-> NoLoop]
    /\ lPc = [c \in Callers |-> "off"]
    /\ lHanded = [c \in Callers |-> NoLoop]
    /\ lScheduled = [c \in Callers |-> FALSE]
    /\ lDone = [c \in Callers |-> FALSE]
    /\ lCalls = [c \in Callers |-> 0]
    /\ lKind = [c \in Callers |-> "none"]
    /\ lRounds = [c \in Callers |-> 0]

RunsIdle ==
    /\ wDb0 = [id \in RunThreadIds |-> NoState]
    /\ wDb = wDb0
    /\ wGraphs = 0
    /\ wIn = <<>>
    /\ wPc = [t \in Runs |-> "off"]
    /\ wTid = [t \in Runs |-> <<>>]
    /\ wExisting = [t \in Runs |-> NoState]
    /\ wChannels = [t \in Runs |-> EmptyState]
    /\ wUpdate = [t \in Runs |-> NoUpdate]
    /\ wOverlapped = FALSE
    /\ wLoadRaised = [t \in Runs |-> FALSE]

\* the pipeline, turn after turn on one thread
Init == PipeInit /\ CtxIdle /\ TidIdle /\ LoopIdle /\ RunsIdle
Next ==
    \/ LoadState
    \/ BeginStream
    \/ ResearcherStage
    \/ ResearcherFail
    \/ MergeResearcher
    \/ ValidatorStage
    \/ ValidatorFail
    \/ SummarizeFail
    \/ MergeValidator
Spec == Init /\ [][Next]_vars

\* the context-manager functions on bounded message sequences
InitContext == CtxInit /\ PipeIdle /\ TidIdle /\ LoopIdle /\ RunsIdle
NextContext ==
    \/ CtxTrigger
    \/ CtxPartition
    \/ CtxManage
    \/ CtxManageFail
    \/ CtxTriggerLower
    \/ CtxAppendAndCount
SpecContext == InitContext /\ [][NextContext]_vars

\* thread-identifier normalisation on bounded names
InitThreadId == TidInit /\ CtxIdle /\ PipeIdle /\ LoopIdle /\ RunsIdle
NextThreadId ==
    \/ RespellUser
    \/ RespellTopic
    \/ NormalizeThreadId
    \/ ParseThreadId
    \/ Renormalize
    \/ LookupThread
    \/ SelectThread
SpecThreadId == InitThreadId /\ [][NextThreadId]_vars

\* handler threads calling get_event_loop / run_async, and the executor's
\* worker
InitLoop == LoopInit /\ CtxIdle /\ PipeIdle /\ TidIdle /\ RunsIdle
NextLoop ==
    \/ \E c \in Callers : GetEventLoopCheck(c)
    \/ \E c \in Callers : GetEventLoopCreate(c)
    \/ \E c \in Callers : GetEventLoopSubmit(c)
    \/ \E c \in Callers : GetEventLoopReturn(c)
    \/ \E c \in Callers : RunCoroutineThreadsafe(c)
    \/ \E c \in Callers : FutureResult(c)
    \/ \E c \in Callers : SyncProcessYield(c)
    \/ \E c \in Callers : SyncProcessStop(c)
    \/ \E c \in Callers : SyncProcessRaise(c)
    \/ WorkerSetEventLoop
    \/ WorkerRunForever
    \/ \E c \in Callers : LoopExecute(c)
SpecLoop == InitLoop /\ [][NextLoop]_vars

\* two runs of main in flight together, and the web front end's start
InitRuns == (MainInit \/ WebInit) /\ CtxIdle /\ PipeIdle /\ TidIdle /\ LoopIdle
NextRuns ==
    \/ \E t \in Runs : MainCompile(t)
    \/ \E t \in Runs : MainLoad(t)
    \/ \E t \in Runs : MainBegin(t)
    \/ \E t \in Runs : MainResearcher(t)
    \/ \E t \in Runs : MainMergeResearcher(t)
    \/ \E t \in Runs : MainValidator(t)
    \/ \E t \in Runs : MainMergeValidator(t)
SpecRuns == InitRuns /\ [][NextRuns]_vars


\* ------------------------------------------------------------------------
\* Properties
\* ------------------------------------------------------------------------
\* the number of user-role messages, counted by position
UserCount(messages) ==
    Cardinality({i \in 1..Len(messages) : messages[i].role = "user"})

FullRun == <<"START", "researcher", "validator", "END">>

IsPrefix(a, b) == Len(a) <= Len(b) /\ a = SubSeq(b, 1, Len(a))

\* C1: the validation_history that validator_node returns holds at most 2
\* entries, most recent last: its last entry is the outcome of the turn that
\* just ran and the entry before it, if any, is the outcome of the validator
\* turn before.
C1_HistoryWindow ==
    pc = "validator_returned" =>
        LET h == update.metadata.val["validation_history"] IN
        /\ Has(update.metadata, "validation_history")
        /\ Len(h) >= 1
        /\ Len(h) <= 2
        /\ h[Len(h)] = thisOutcome.entry
        /\ Len(h) = 2 => (prevOutcome.has /\ h[1] = prevOutcome.entry)

\* a validator turn that started from a full window of 2 entries
C1_Witness ==
    /\ pc = "validator_returned"
    /\ Len(ReadValidationHistory(existing.metadata)) = 2
    /\ Len(update.metadata.val["validation_history"]) = 2
    /\ thisOutcome.entry # prevOutcome.entry

\* C2: when a stage of a turn fails, the state stored for the thread is
\* exactly the state stored before the turn began.
C2_NoPartialState ==
    pc = "failed" => store = turnStart

\* C3: when the trigger fires and the to-summarize partition is non-empty,
\* manage_conversation_context returns one system message "Previous
\* conversation summary: " + the summarizer's text, followed by the to_keep
\* partition unchanged and in order, and nothing of to_summarize.
C3_CompactionResult ==
    LET to_summarize == get_messages_to_summarize(cIn, cK)
        to_keep == get_recent_exchanges(cIn, cK)
    IN  (cOp = "manage" /\ cFired /\ to_summarize # <<>>) =>
            /\ Len(cMsgs) = 1 + Len(to_keep)
            /\ cMsgs[1].role = "system"
            /\ cMsgs[1].content = SummaryPrefix \o Strip(cLlm)
            /\ \A i \in 1..Len(to_keep) : cMsgs[i + 1] = to_keep[i]
            /\ Tail(cMsgs) = SubSeq(cIn, Len(to_summarize) + 1, Len(cIn))

\* a compaction that dropped messages and kept others
C3_Witness ==
    /\ cOp = "manage"
    /\ cFired
    /\ cCompacted
    /\ Len(get_messages_to_summarize(cIn, cK)) >= 2
    /\ Len(cMsgs) >= 3
    /\ cLlm # Strip(cLlm)

\* C4: to_summarize + to_keep reconstructs the sequence exactly, and
\* to_summarize is empty whenever the number of user messages is <= k.
C4_PartitionConcat ==
    cOp = "partition" =>
        /\ cSum \o cKeep = cMsgs
        /\ UserCount(cMsgs) <= cK => cSum = <<>>

\* a partition with both parts non-empty
C4_Witness ==
    /\ cOp = "partition"
    /\ cSum # <<>>
    /\ cKeep # <<>>
    /\ cKeep # cMsgs

\* C5: should_summarize is true exactly when the number of user messages
\* is strictly greater than max_exchanges or the token estimate is strictly
\* greater than max_tokens, and it leaves the messages as they were.
C5_TriggerIff ==
    cOp = "trigger" =>
        /\ cTrig <=> (UserCount(cMsgs) > cK \/ estimate_message_tokens(cMsgs) > cMaxTok)
        /\ cMsgs = cIn

\* both thresholds met with equality, and the trigger did not fire
C5_Witness ==
    /\ cOp = "trigger"
    /\ UserCount(cMsgs) = cK
    /\ estimate_message_tokens(cMsgs) = cMaxTok
    /\ ~cTrig

\* C6: when manage_conversation_context has just compacted, running it again
\* on the result with the same thresholds does not fire.
C6_NoSecondCompaction ==
    (cOp = "manage" /\ cPrevCompacted) => ~cFired

\* C7: whenever the number of user messages is <= max_exchanges,
\* manage_conversation_context makes no summarization call and returns its
\* input unchanged, even if the token threshold fired; the summarizer is
\* never called on an empty partition.
C7_NoEmptySummarization ==
    /\ \A i \in 1..Len(cCalls) : cCalls[i] # <<>>
    /\ cOp = "manage_failed" => UserCount(cIn) > cK
    /\ (cOp = "manage" /\ UserCount(cIn) <= cK) => (~cCompacted /\ cMsgs = cIn)

\* the token threshold fired on a sequence with few user messages
C7_Witness ==
    /\ cOp = "manage"
    /\ UserCount(cIn) <= cK
    /\ cIn # <<>>
    /\ estimate_message_tokens(cIn) > cMaxTok
    /\ cFired

\* C8: the stages of a turn run in the order START, researcher, validator,
\* END, each once; the validator runs on the state that holds the
\* researcher's update, and the research text it critiques is the agent
\* message the researcher appended in the same turn.
C8_StageOrder ==
    /\ pc # "off" => IsPrefix(stageLog, FullRun)
    /\ pc = "done" => stageLog = FullRun
    /\ critique.called =>
          /\ researcherMsg # <<>>
          /\ critique.research_result = researcherMsg
    /\ pc = "validator_returned" =>
          channels.messages[Len(channels.messages)] = Message("agent", researcherMsg)

\* a later turn has run to its end, after a turn with another query
C8_Witness ==
    /\ pc = "done"
    /\ turns >= 2
    /\ critique.called
    /\ \E i \in 1..Len(existing.messages) :
          /\ existing.messages[i].role = "agent"
          /\ existing.messages[i].content # researcherMsg
          /\ existing.messages[i].content # validatorMsg

\* C9 as stated: on every validator turn the trigger is evaluated exactly
\* once, on the transcript that includes the validator's new message, and
\* validator_node returns the Context Manager's output for that transcript,
\* whatever the validator agent's configuration.
C9_ManagedEveryTurn ==
    pc = "validator_returned" =>
        /\ trigEvals = 1
        /\ trigInput = Append(channels.messages, Message("agent", validatorMsg))
        /\ update.messages = managed

\* C9 amended: with an LLM client the trigger is evaluated exactly once, on
\* the transcript that includes the validator's new message, and the
\* returned messages are the Context Manager's output; without an LLM
\* client the Context Manager is not invoked and the returned messages are
\* the transcript plus the validator's new message.
C9_ManagedWithLlm ==
    pc = "validator_returned" =>
        IF llmConfigured
        THEN /\ trigEvals = 1
             /\ trigInput = Append(channels.messages, Message("agent", validatorMsg))
             /\ update.messages = managed
        ELSE /\ trigEvals = 0
             /\ update.messages
                  = Append(channels.messages, Message("agent", validatorMsg))

\* a validator turn whose transcript was compacted
C9_Witness ==
    /\ pc = "validator_returned"
    /\ llmConfigured
    /\ trigEvals = 1
    /\ update.messages # trigInput
    /\ update.messages[1].role = "system"

\* C10: two (user, topic) spellings that differ only in letter case or in
\* whitespace yield the same thread identifier.
C10_CaseWhitespaceInsensitive ==
    nOp = "normalized" => nId = nId2

\* the text a name becomes before the default is substituted
BeforeDefault(text) == StripNonId(SpacesToHyphens(Strip(Lower(text))))

\* the part of an identifier before / after its first colon
UserPart(id) == SubSeq(id, 1, Min(ColonPositions(id)) - 1)
TopicPart(id) == SubSeq(id, Min(ColonPositions(id)) + 1, Len(id))

\* one colon, both parts non-empty and made of [a-z0-9_-], topic within the cap
WellFormedId(id) ==
    /\ Cardinality(ColonPositions(id)) = 1
    /\ UserPart(id) # <<>>
    /\ TopicPart(id) # <<>>
    /\ \A i \in 1..Len(UserPart(id)) : UserPart(id)[i] \in IdChars
    /\ \A i \in 1..Len(TopicPart(id)) : TopicPart(id)[i] \in IdChars
    /\ Len(TopicPart(id)) <= TopicCap

\* C11 as stated: normalize_thread_id returns "<user>:<topic>" with exactly
\* one colon, both parts non-empty and made of [a-z0-9_-], the topic at most
\* 50 characters, and a part is "default-user" / "general" exactly when the
\* respective input normalizes to the empty string.
C11_DefaultsExactlyWhenEmpty ==
    nOp = "normalized" =>
        /\ WellFormedId(nId)
        /\ UserPart(nId) = DefaultUser <=> BeforeDefault(nUser) = <<>>
        /\ TopicPart(nId) = DefaultTopic <=> BeforeDefault(nTopic) = <<>>

\* C11 amended: the identifier is well formed as above; a part is the
\* default whenever the respective input normalizes to the empty string, and
\* otherwise it is the normalized input (the topic cut to 50 characters),
\* which may itself spell the default.
C11_WellFormedId ==
    nOp = "normalized" =>
        /\ WellFormedId(nId)
        /\ UserPart(nId) = IF BeforeDefault(nUser) = <<>> THEN DefaultUser
                           ELSE BeforeDefault(nUser)
        /\ TopicPart(nId) = IF BeforeDefault(nTopic) = <<>> THEN DefaultTopic
                            ELSE Take(BeforeDefault(nTopic), TopicCap)

\* an empty user name with a topic longer than the cap
C11_Witness ==
    /\ nOp = "normalized"
    /\ nUser = <<>>
    /\ UserPart(nId) = DefaultUser
    /\ Len(BeforeDefault(nTopic)) > TopicCap
    /\ Len(TopicPart(nId)) = TopicCap

\* C12: parsing a normalized identifier and normalizing the parts again
\* gives the same identifier.
C12_IdempotentThroughParse ==
    nOp = "renormalized" =>
        /\ nParsed.ok
        /\ nRe = nId

\* a pair that normalization changed (a default substituted, a topic cut)
C12_Witness ==
    /\ nOp = "renormalized"
    /\ nRe = nId
    /\ nParsed.user # nUser
    /\ nParsed.topic # nTopic
    /\ nParsed.user # nParsed.topic

\* C13: parse_thread_id returns None exactly when the identifier has no
\* colon; otherwise the user part is the text before the first colon, the
\* topic part is everything after it, and user + ":" + topic is the
\* identifier.
C13_ParseFirstColon ==
    nOp = "parsed" =>
        /\ nParsed.ok <=> (\E i \in 1..Len(nRaw) : nRaw[i] = ":")
        /\ nParsed.ok =>
              /\ \A i \in 1..Len(nParsed.user) : nParsed.user[i] # ":"
              /\ nParsed.user \o <<":">> \o nParsed.topic = nRaw

\* an identifier with a second colon, which stays in the topic part
C13_Witness ==
    /\ nOp = "parsed"
    /\ nParsed.ok
    /\ nParsed.user # <<>>
    /\ \E i \in 1..Len(nParsed.topic) : nParsed.topic[i] = ":"

\* C14: for a sequence with more than num_exchanges user messages,
\* get_recent_exchanges returns a suffix that begins with a user message and
\* contains exactly num_exchanges user messages, and
\* get_messages_to_summarize returns everything strictly before it.
C14_KeepsLastExchanges ==
    (cOp = "partition" /\ UserCount(cMsgs) > cK) =>
        /\ cKeep # <<>>
        /\ cKeep = SubSeq(cMsgs, Len(cMsgs) - Len(cKeep) + 1, Len(cMsgs))
        /\ cKeep[1].role = "user"
        /\ UserCount(cKeep) = cK
        /\ cSum = SubSeq(cMsgs, 1, Len(cMsgs) - Len(cKeep))

\* C15: when the trigger fired and manage_conversation_context did not
\* compact, the number of user messages is at most max_exchanges: with more
\* user messages than max_exchanges the to-summarize partition is non-empty.
C15_EmptyOnlyWhenFewExchanges ==
    /\ (cOp = "partition" /\ UserCount(cMsgs) > cK) => cSum # <<>>
    /\ (cOp = "manage" /\ cFired /\ ~cCompacted) => UserCount(cIn) <= cK

\* part occurs in text as a run of consecutive atoms
Contains(text, part) ==
    \E i \in 0..(Len(text) - Len(part)) : SubSeq(text, i + 1, i + Len(part)) = part

\* C16: the critique call of a turn receives exactly the validation history
\* window that was stored for the thread when the turn began, the outcome of
\* the turn is appended only after the call, and the validation prompt built
\* from the history contains the assessment text of every entry passed.
C16_CritiqueSeesStoredHistory ==
    critique.called =>
        /\ critique.previous_validations = ReadValidationHistory(turnStart.metadata)
        /\ llmConfigured =>
              \A i \in 1..Len(critique.previous_validations) :
                  Contains(critique.prompt, critique.previous_validations[i].assessment)
        /\ pc = "validator_returned" =>
              update.metadata.val["validation_history"]
                = LastTwo(Append(critique.previous_validations, thisOutcome.entry))

\* the entry validator_node rebuilds from the scalar validation fields
LegacyEntry(metadata) ==
    [confidence_score |-> metadata.val["confidence_score"],
     assessment |-> metadata.val["assessment"],
     is_validated |-> metadata.val["is_validated"]]

\* C17: when the metadata validator_node receives has no validation_history
\* key but has the scalar confidence_score, the critique call receives the
\* 1-entry history rebuilt from the scalar fields and the window stored after
\* the turn is that entry followed by the new outcome; when it has neither,
\* the critique call receives no history.
C17_LegacyReconstruction ==
    (pc \in {"validator_returned", "done"}
       /\ ~Has(stageIn.metadata, "validation_history")) =>
        LET window == IF pc = "done" THEN store.metadata.val["validation_history"]
                      ELSE update.metadata.val["validation_history"]
        IN  IF Has(stageIn.metadata, "confidence_score")
            THEN /\ critique.previous_validations = <<LegacyEntry(stageIn.metadata)>>
                 /\ window = <<LegacyEntry(stageIn.metadata), thisOutcome.entry>>
            ELSE /\ critique.previous_validations = <<>>
                 /\ window = <<thisOutcome.entry>>

\* a turn on a thread stored with the scalar fields only has run to its end
C17_Witness ==
    /\ pc = "done"
    /\ ~Has(stageIn.metadata, "validation_history")
    /\ Has(stageIn.metadata, "confidence_score")
    /\ Len(store.metadata.val["validation_history"]) = 2
    /\ store.metadata.val["validation_history"][1].confidence_score = 60
    /\ store.metadata.val["validation_history"][2] # store.metadata.val["validation_history"][1]

\* C18: when a stage has returned, the state it was called with is as it was
\* before the call: messages, metadata and the validation_history list in it.
C18_StagesLeaveInputUnchanged ==
    pc \in {"researcher_returned", "validator_returned"} => channels = stageIn

\* C19: a failure raised by a collaborator call of a turn, the load of the
\* prior state included, ends the turn as failed: the turn does not go on
\* with a default value or an empty state.
C19_FailuresPropagate ==
    /\ loadRaised => pc = "failed"
    /\ failedAt # "none" => pc = "failed"

\* every entry of a history has a confidence_score in [0, 100]
ScoresInRange(history) ==
    \A i \in 1..Len(history) :
        history[i].confidence_score >= 0 /\ history[i].confidence_score <= 100

\* C20: every entry of the validation-history window, as stored, as read by
\* validator_node, as passed to the critique call and as returned, has a
\* confidence_score in [0, 100]; a critique result with a score outside the
\* range fails the turn.
C20_ScoresInRange ==
    /\ ScoresInRange(ReadValidationHistory(store.metadata))
    /\ ScoresInRange(ReadValidationHistory(channels.metadata))
    /\ ScoresInRange(ReadValidationHistory(update.metadata))
    /\ ScoresInRange(critique.previous_validations)
    /\ thisOutcome.entry.confidence_score \in 0..100
    /\ failedAt = "score_range" => pc = "failed"

\* the critique returned a score above 100 on a thread that has a window
C20_Witness ==
    /\ pc = "failed"
    /\ failedAt = "score_range"
    /\ Len(ReadValidationHistory(store.metadata)) >= 1

\* C22: if should_summarize returns true at thresholds (e, t), it returns
\* true at every (e', t') with e' <= e and t' <= t.
C22_TriggerMonotonic ==
    cOp = "trigger_lower" =>
        /\ cK2 <= cK
        /\ cMaxTok2 <= cMaxTok
        /\ cTrig => cTrig2

\* the trigger fired at the higher thresholds by the exchange count alone,
\* and both thresholds were lowered
C22_Witness ==
    /\ cOp = "trigger_lower"
    /\ cTrig
    /\ cTrig2
    /\ UserCount(cMsgs) > cK
    /\ estimate_message_tokens(cMsgs) <= cMaxTok
    /\ cK2 < cK
    /\ cMaxTok2 < cMaxTok

\* every appended message has a role other than user
NoUserIn(messages) == \A i \in 1..Len(messages) : messages[i].role # "user"

\* C23: count_exchanges is the number of user-role messages; appending
\* messages of other roles leaves it unchanged and appending one user
\* message raises it by exactly 1.
C23_CountsUserMessages ==
    cOp = "counted" =>
        /\ cCountIn = UserCount(cIn)
        /\ cCountOut = UserCount(cMsgs)
        /\ NoUserIn(cExtra) => cCountOut = cCountIn
        /\ (Len(cExtra) = 1 /\ cExtra[1].role = "user") => cCountOut = cCountIn + 1

\* two messages of other roles appended to a sequence with user messages
C23_Witness ==
    /\ cOp = "counted"
    /\ Len(cExtra) = 2
    /\ NoUserIn(cExtra)
    /\ cExtra[1].role # cExtra[2].role
    /\ cCountIn >= 2
    /\ cCountOut = cCountIn

\* the cost of the messages one by one, added up by position
RECURSIVE CostUpTo(_, _)
CostUpTo(messages, n) ==
    IF n = 0 THEN 0
    ELSE CostUpTo(messages, n - 1) + 2 + count_tokens(messages[n].content)

\* C24: estimate_message_tokens is a non-negative integer, the sum of the
\* costs of the messages: 0 for the empty sequence, and appending messages
\* never decreases it.
C24_TokensSumAndGrow ==
    cOp = "counted" =>
        /\ cTokIn >= 0
        /\ cIn = <<>> => cTokIn = 0
        /\ cTokIn = CostUpTo(cIn, Len(cIn))
        /\ cTokOut = CostUpTo(cMsgs, Len(cMsgs))
        /\ cTokOut >= cTokIn

\* a short message appended after a longer one
C24_Witness ==
    /\ cOp = "counted"
    /\ Len(cExtra) = 1
    /\ cIn # <<>>
    /\ Len(cIn[Len(cIn)].content) > Len(cExtra[1].content)
    /\ cTokOut > cTokIn

\* the number of system-role messages, counted by position
SystemCount(messages) ==
    Cardinality({i \in 1..Len(messages) : messages[i].role = "system"})

\* the last n messages of a sequence
LastMessages(messages, n) ==
    IF Len(messages) <= n THEN messages
    ELSE SubSeq(messages, Len(messages) - n + 1, Len(messages))

\* C25: on a thread whose turns all ran the full pipeline without a failure
\* and with an LLM client configured, the transcript stored after each turn
\* has at most 5 user-role messages and at most 16 messages.
C25_BoundedTranscript ==
    (pc = "done" /\ llmConfigured /\ failures = 0) =>
        /\ UserCount(store.messages) <= 5
        /\ Len(store.messages) <= 16

\* a seventh turn without a failure has ended: one summary and five
\* exchanges are stored
C25_Witness ==
    /\ pc = "done"
    /\ llmConfigured
    /\ failures = 0
    /\ turns = 7
    /\ UserCount(store.messages) = 5
    /\ Len(store.messages) = 16
    /\ store.messages[1].role = "system"

\* C26: the stored transcript has at most one system-role message; when
\* present it is the first message and a user message follows it; a
\* compaction of a transcript that begins with a summary passes that summary
\* to the summarizer and returns a transcript with one summary.
C26_SingleRollingSummary ==
    /\ SystemCount(store.messages) <= 1
    /\ SystemCount(store.messages) = 1 =>
          /\ store.messages[1].role = "system"
          /\ Len(store.messages) >= 2
          /\ store.messages[2].role = "user"
    /\ (pc = "validator_returned" /\ sumCalls # <<>>) =>
          /\ SystemCount(update.messages) = 1
          /\ update.messages[1].role = "system"
          /\ update.messages[2].role = "user"
          /\ SystemCount(trigInput) = 1 => sumCalls[Len(sumCalls)][1] = trigInput[1]

\* a transcript that began with a summary was compacted again
C26_Witness ==
    /\ pc = "validator_returned"
    /\ sumCalls # <<>>
    /\ SystemCount(trigInput) = 1
    /\ trigInput[1].role = "system"
    /\ sumCalls[Len(sumCalls)][1] = trigInput[1]
    /\ SystemCount(update.messages) = 1

\* C27: after every successful turn the last three messages of the stored
\* transcript are the user message that seeded the turn, the researcher's
\* message and the validator's message of the same turn.
C27_CurrentExchangeSurvives ==
    /\ pc = "validator_returned" =>
          LastMessages(update.messages, 3)
            = <<Message("user", turnQuery), Message("agent", researcherMsg),
                Message("agent", validatorMsg)>>
    /\ pc = "done" =>
          LastMessages(store.messages, 3)
            = <<Message("user", turnQuery), Message("agent", researcherMsg),
                Message("agent", validatorMsg)>>

\* a turn whose transcript was compacted has ended
C27_Witness ==
    /\ pc = "done"
    /\ sumCalls # <<>>
    /\ store.messages[1].role = "system"
    /\ Len(store.messages) < Len(trigInput)

\* C28: after the validator stage the scalar fields of the returned
\* metadata equal the fields of the last entry of its validation_history,
\* agent is "validator", the returned is_validated equals the entry's, and
\* is_validated is true exactly when confidence_score >= the threshold.
C28_ScalarsAgreeWithWindow ==
    pc = "validator_returned" =>
        LET md == update.metadata
            h == md.val["validation_history"]
        IN  /\ {"confidence_score", "assessment", "is_validated", "agent",
                "validation_history"} \subseteq md.keys
            /\ h # <<>>
            /\ md.val["confidence_score"] = h[Len(h)].confidence_score
            /\ md.val["assessment"] = h[Len(h)].assessment
            /\ md.val["is_validated"] = h[Len(h)].is_validated
            /\ md.val["agent"] = "validator"
            /\ update.is_validated = h[Len(h)].is_validated
            /\ update.is_validated <=> md.val["confidence_score"] >= confidence_threshold

\* a score equal to the threshold, after an earlier outcome below it
C28_Witness ==
    /\ pc = "validator_returned"
    /\ Len(update.metadata.val["validation_history"]) = 2
    /\ update.metadata.val["confidence_score"] = confidence_threshold
    /\ update.is_validated
    /\ ~update.metadata.val["validation_history"][1].is_validated

\* C29: when the identifier created for (user, topic) is among the stored
\* identifiers, find_thread_id_for_user_topic returns it for the same user and
\* topic, and list_topics_for_user lists its topic part for the same user
C29_LookupAgreesWithCreation ==
    (nOp = "looked_up" /\ nId \in Range(nIds)) =>
        /\ nFound = [found |-> TRUE, id |-> nId]
        /\ TopicPart(nId) \in Range(nTopics)

\* C30: under concurrent callers of get_event_loop / run_async at most one
\* event loop is created, and the loop handed to a caller is the one the
\* executor's worker runs, so that the caller's coroutine gets executed
C30_SingletonLoop ==
    /\ lCreated <= 1
    /\ \A c \in Callers :
         (lPc[c] \in {"schedule", "wait"} /\ lWorker.pc = "running")
            => lHanded[c] = lWorker.loop

\* the thread a turn works on
ThreadOf(t) == normalize_thread_id(wIn[t].user, wIn[t].topic)

\* no other turn works on the thread of turn t
OwnThread(t) == \A o \in Runs \ {t} : ThreadOf(o) # ThreadOf(t)

\* C21: when turns on different thread identifiers run concurrently, in any
\* interleaving of their load, stage and persist steps, the state persisted
\* for a finished turn's thread is the state the turn leaves when run alone
\* (with the same answers of the services and the same outcome of its load)
C21_ThreadsIndependent ==
    \A t \in Runs :
        (wPc[t] = "done" /\ OwnThread(t)) =>
            wDb[ThreadOf(t)] = AloneTurn(wDb0, ThreadOf(t), ~wLoadRaised[t], wIn[t])

\* two turns on different threads, one of which starts from a saved
\* conversation, have both finished after their steps interleaved
C21_Witness ==
    /\ \A t \in Runs : wPc[t] = "done" /\ OwnThread(t)
    /\ wOverlapped
    /\ \E t \in Runs : wDb0[ThreadOf(t)].exists /\ ~wLoadRaised[t]
    /\ \E t \in Runs : Len(wDb[ThreadOf(t)].messages) >= 6

====
